---- MODULE Spec2Model ----
(***************************************************************************)
(* A model of the rCore-Tutorial kernel: the process subsystem (task       *)
(* control blocks, pid allocator, ready queue, processor), the trap path   *)
(* (trap_handler / trap_return), the process and signal system calls, the  *)
(* pipe ring buffer, the fork-time copy of an address space, and the block *)
(* cache of easy-fs.                                                       *)
(*                                                                         *)
(* One state machine, several specifications over the same variables:      *)
(*   Spec       process core: fork, exit, waitpid, yield, timer, faults    *)
(*   SpecKill   the signal system calls under the trap path as coded       *)
(*   SpecSig    the signal system calls with handle_signals driven before  *)
(*              every return to user mode                                  *)
(*   SpecPipe   one pipe shared by a writer and a reader (SpecPipeFair     *)
(*              adds the scheduler's fairness)                             *)
(*   SpecMem    stores of user programs and fork's copy of the memory      *)
(*   SpecCache  the block cache manager of easy-fs and its callers         *)
(***************************************************************************)
EXTENDS Integers, Sequences, FiniteSets, TLC

VARIABLES
    tcb,        \* slot -> task control block (an Arc<TaskControlBlock> allocation)
    ready,      \* TASK_MANAGER's ready queue: sequence of slots
    current,    \* PROCESSOR.current: a slot, or 0 for None
    pidalloc,   \* PID_ALLOCATOR: [current, recycled]
    pid2tcb,    \* PID2TCB: pid -> slot, 0 when absent
    last,       \* the system call being served by the running task, if any
    halted,     \* "no", "shutdown" (sbi shutdown) or "panic" (kernel panic)
    ring,       \* the PipeRingBuffer of the one pipe of the pipe specifications
    accepted,   \* history: every byte Pipe::write has put into the ring, in order
    delivered,  \* history: every byte Pipe::read has handed to a reader, in order
    mem,        \* frame allocator, frame contents, address space of each slot
    bcm,        \* BLOCK_CACHE_MANAGER: [queue], entries in insertion order
    disk,       \* the block device: block id -> content of the block
    held,       \* the handles (Arc clones) callers hold, innermost scope last
    written,    \* history: block id -> content last written through the cache
    wrote,      \* history: the write_block calls of the last step, in order
    bmlog,      \* history: the calls of Bitmap::alloc and dealloc, in order
    cells,      \* the UPSafeCells exclusively borrowed: [taken, at_switch, error]
    mtimecmp    \* the timer comparator: "set" while a trigger lies ahead, else "fired"

procVars == <<tcb, ready, current, pidalloc, pid2tcb, last, halted>>
pipeVars == <<ring, accepted, delivered>>
memVars == <<mem>>
cacheVars == <<bcm, disk, held, written, wrote, bmlog>>
cellVars == <<cells>>
timerVars == <<mtimecmp>>
vars == <<tcb, ready, current, pidalloc, pid2tcb, last, halted,
          ring, accepted, delivered, mem, bcm, disk, held, written, wrote,
          bmlog, cells, mtimecmp>>

----------------------------------------------------------------------------
(* Bounds of the model. *)

\* Number of task control blocks that can be alive at once.
MaxTasks == 3
\* Number of instruction slots of each code region a user pc ranges over.
PcWords == 2

----------------------------------------------------------------------------
(* Program constants. *)

IDLE_PID == 0
MAX_SIG == 31
KERNEL_STACK_PAGES == 2

SIGDEF == 0
SIGKILL == 9
SIGUSR1 == 10
SIGUSR2 == 12
SIGCONT == 18
SIGSTOP == 19

Slots == 1..MaxTasks
Pids == 0..(MaxTasks - 1)
\* The slot of INITPROC, created first (task/mod.rs lazy_static INITPROC).
INITPROC == 1

\* Signals the model's inputs range over; the action table is kept for these.
ModelSigs == {SIGDEF, SIGKILL, SIGUSR1, SIGUSR2, SIGCONT, SIGSTOP}

\* Exit codes user programs pass to exit().
ExitCodes == {42}

----------------------------------------------------------------------------
(* Trap context. *)

\* Size in bytes of a code region; user pcs advance by 4 inside a region.
RegionBytes == 4 * PcWords

\* trap_handler: cx.sepc += 4, inside the bounded code region of the pc.
NextPc(pc) == (pc - (pc % RegionBytes)) + (((pc % RegionBytes) + 4) % RegionBytes)

\* kernel_stack_position(pid).top, in pages below TRAMPOLINE.
KernelStackTop(pid) == 0 - pid * (KERNEL_STACK_PAGES + 1)

\* TrapContext::app_init_context(entry, ..., kernel_sp, ...): x = [0; 32].
AppInitContext(entry, ksp) == [a0 |-> 0, sepc |-> entry, kernel_sp |-> ksp]

\* SignalActions::default(): every handler 0, every mask empty.
DefaultActions == [s \in ModelSigs |-> [handler |-> 0, mask |-> {}]]

\* Locals of a system call suspended inside the kernel (none outside pipe calls).
NoLocals == [want |-> 0, done |-> 0]

\* No system call is being served.  A served call is recorded as its name,
\* its caller, its integer arguments and what it wrote to user memory.
NoLast == [op |-> "none", who |-> 0, arg |-> 0, arg2 |-> 0, out |-> <<>>]

\* An unused slot (no TaskControlBlock allocated there).  Besides the fields
\* of TaskControlBlockInner a control block carries kpc (where its kernel
\* thread continues), kloc (the locals of a suspended system call) and saved,
\* a history of the trap contexts that handler dispatches have saved and
\* whose sigreturn is still to come (innermost last).
FreeTcb ==
    [status |-> "Free", pid |-> 0 - 1, kpc |-> "none", parent |-> 0,
     children |-> <<>>, exit_code |-> 0, cx |-> AppInitContext(0, 0),
     signals |-> {}, signal_mask |-> {}, handling_sig |-> 0 - 1,
     signal_actions |-> DefaultActions, killed |-> FALSE, frozen |-> FALSE,
     trap_ctx_backup |-> <<>>, fd_table |-> <<>>, kloc |-> NoLocals,
     saved |-> <<>>]

\* TaskControlBlock::new(elf): the init process, entry point 0.
NewTcb(pid) ==
    [status |-> "Ready", pid |-> pid, kpc |-> "new", parent |-> 0,
     children |-> <<>>, exit_code |-> 0,
     cx |-> AppInitContext(0, KernelStackTop(pid)),
     signals |-> {}, signal_mask |-> {}, handling_sig |-> 0 - 1,
     signal_actions |-> DefaultActions, killed |-> FALSE, frozen |-> FALSE,
     trap_ctx_backup |-> <<>>,
     fd_table |-> <<"stdin", "stdout", "stdout">>, kloc |-> NoLocals,
     saved |-> <<>>]

----------------------------------------------------------------------------
(* Pipe ring buffer. *)

RING_BUFFER_SIZE == 32

\* PipeRingBuffer::new(); write_end says whether the weak reference is set.
EmptyRing ==
    [arr |-> [i \in 0..(RING_BUFFER_SIZE - 1) |-> 0], head |-> 0, tail |-> 0,
     status |-> "Empty", write_end |-> FALSE]

----------------------------------------------------------------------------
(* Physical frames, page tables and address spaces.  Only the frames that
   hold the pages of user address spaces are modelled, the trap-context
   page among them: page-table nodes and kernel stacks come from the same
   allocator but never hold a page of a user address space.  The contents
   of the trap-context page are the cx field of the task's control block.
   The pool is large enough for everything the bounds allow, so
   frame_alloc().unwrap() never fails. *)

\* Pages of the LOAD segment of a user program.
ElfPages == 1

\* USER_STACK_SIZE / PAGE_SIZE.
USER_STACK_PAGES == 2

\* Pages by which the area above the user stack can grow.
HeapPages == 1

\* Frames that the virtio queue asks for in one dma_alloc, and the number
\* of dma_alloc calls.
MaxDmaPages == 2
MaxDmaCalls == 1

PagesPerTask == ElfPages + USER_STACK_PAGES + HeapPages + 1
Frames == 1..(MaxTasks * PagesPerTask + MaxDmaCalls * MaxDmaPages)

\* Virtual page numbers.  Low pages: the LOAD segment, one guard page, the
\* user stack, the pages above it.  High pages: TRAP_CONTEXT, TRAMPOLINE.
LoadStart == 1
LoadEnd == LoadStart + ElfPages
UserStackBottom == LoadEnd + 1
UserStackTop == UserStackBottom + USER_STACK_PAGES
HeapTop == UserStackTop + HeapPages
TRAMPOLINE == 2^27 - 1
TRAP_CONTEXT == TRAMPOLINE - 1
LowVpns == LoadStart..HeapTop
HighVpns == {TRAP_CONTEXT, TRAMPOLINE}
Vpns == LowVpns \cup HighVpns

\* config.rs: PAGE_SIZE.
PAGE_SIZE == 4096

\* The frame of the kernel image that holds the trampoline code; it is not
\* a frame of the allocator.
Strampoline == 0

\* The byte that the ELF image holds for a page of the LOAD segment.
ElfByte(vpn) == vpn

\* The value a user program stores.
StoreValues == {7}

\* PTEFlags and MapPermission: the bit of each flag.
PTEFlagBit ==
    [V |-> 0, R |-> 1, W |-> 2, X |-> 3, U |-> 4, G |-> 5, A |-> 6, D |-> 7]
MapPermissionBit == [R |-> 1, W |-> 2, X |-> 3, U |-> 4]

\* map_perm.bits: the set of the bits that are 1.
PermBits(map_perm) == {MapPermissionBit[p] : p \in map_perm}

\* Mutant of FromBits: the U bit is lost.
FromBitsNoUser(bits) ==
    {f \in DOMAIN PTEFlagBit : PTEFlagBit[f] \in bits} \ {"U"}

\* PTEFlags::from_bits(bits).unwrap().
FromBits(bits) == {f \in DOMAIN PTEFlagBit : PTEFlagBit[f] \in bits}

\* Permissions of the LOAD segment of the user programs (ph_flags R, W, X).
ElfPerm == {"U", "R", "W", "X"}

\* StackFrameAllocator: a bump pointer and a stack of recycled frames.
FrameAllocatorInit == [current |-> 1, recycled |-> <<>>]

\* frame_alloc: the frame handed out; a recycled frame wins.
FrameAllocPpn(fa) ==
    IF fa.recycled # <<>> THEN fa.recycled[Len(fa.recycled)] ELSE fa.current

\* frame_alloc: the allocator afterwards.
FrameAllocNext(fa) ==
    IF fa.recycled # <<>>
    THEN [fa EXCEPT !.recycled = SubSeq(fa.recycled, 1, Len(fa.recycled) - 1)]
    ELSE [fa EXCEPT !.current = fa.current + 1]

\* frame_dealloc, called when a FrameTracker is dropped.
FrameDealloc(fa, ppn) == [fa EXCEPT !.recycled = Append(fa.recycled, ppn)]

\* MapArea::new: no page is mapped yet.
MapAreaNew(start_vpn, end_vpn, map_type, map_perm) ==
    [vpn_range |-> <<start_vpn, end_vpn>>, data_frames |-> <<>>,
     map_type |-> map_type, map_perm |-> map_perm]

\* MapArea::from_another: same range, type and permissions, data_frames
\* empty.
FromAnother(another) ==
    [vpn_range |-> another.vpn_range, data_frames |-> <<>>,
     map_type |-> another.map_type, map_perm |-> another.map_perm]

\* The last-level table that holds the entry of vpn: the two upper indexes
\* of VirtPageNum::indexes, 9 bits each level.
LeafTable(vpn) == vpn \div 512

\* MemorySet::new_bare (the trampoline is not an area).  page_table and
\* flags are the frame number and the flags of the leaf entry of each page;
\* an empty entry is 0 with no flag.  nodes are the last-level tables that
\* find_pte_create has made: the interior entries that lead to them are
\* valid.
NewBare ==
    [page_table |-> [v \in Vpns |-> 0], flags |-> [v \in Vpns |-> {}],
     areas |-> <<>>, nodes |-> {}]

\* PageTableEntry::is_valid of the leaf entry of vpn.
IsValid(ms, vpn) == "V" \in ms.flags[vpn]

\* PageTable::map: the assertion fails when the entry is valid already.
PageTableMap(m, vpn, ppn, flags) ==
    IF IsValid(m.ms, vpn) THEN [m EXCEPT !.panic = TRUE]
    ELSE [m EXCEPT !.ms.page_table[vpn] = ppn,
                   !.ms.flags[vpn] = flags \cup {"V"},
                   !.ms.nodes = @ \cup {LeafTable(vpn)}]

\* PageTable::unmap: find_pte(vpn).unwrap() and the assertion fail when the
\* page is not mapped; otherwise the entry becomes empty.
PageTableUnmap(m, vpn) ==
    IF ~IsValid(m.ms, vpn) THEN [m EXCEPT !.panic = TRUE]
    ELSE [m EXCEPT !.ms.page_table[vpn] = 0, !.ms.flags[vpn] = {}]

\* MemorySet::map_trampoline.
MapTrampoline(m) == PageTableMap(m, TRAMPOLINE, Strampoline, {"R", "X"})

\* MapArea::map_one: the physical page number for vpn.
MapOnePpn(map_type, vpn, frame) ==
    IF map_type = "Identical" THEN vpn ELSE frame

\* MapArea::map_one on the area b.area: allocate (Framed), record the frame
\* in data_frames, enter the mapping in the page table.  The frame comes
\* zeroed from the allocator.  data_frames is kept as the sequence of
\* <<vpn, frame>> in key order; the pages of an area are mapped in
\* ascending order.  b is [fa, bytes, ms, panic, area].
MapOne(b, vpn) ==
    LET ppn == MapOnePpn(b.area.map_type, vpn, FrameAllocPpn(b.fa))
        a == IF b.area.map_type = "Framed"
             THEN [b EXCEPT !.fa = FrameAllocNext(@),
                            !.bytes[ppn] = 0,
                            !.area.data_frames = Append(@, <<vpn, ppn>>)]
             ELSE b
    IN PageTableMap(a, vpn, ppn, FromBits(PermBits(b.area.map_perm)))

\* MapArea::unmap_one: data_frames.remove(vpn) drops the tracker, so the
\* frame goes back to the allocator; then the entry is cleared.
UnmapOne(b, vpn) ==
    LET tracked == {k \in 1..Len(b.area.data_frames) :
                    b.area.data_frames[k][1] = vpn}
        a == IF b.area.map_type = "Framed" /\ tracked # {}
             THEN LET k == CHOOSE k \in tracked : TRUE IN
                  [b EXCEPT !.fa = FrameDealloc(@, b.area.data_frames[k][2]),
                            !.area.data_frames =
                                SelectSeq(@, LAMBDA e : e[1] # vpn)]
             ELSE b
    IN PageTableUnmap(a, vpn)

\* MapArea::map, and the loop of append_to: map_one for every page of
\* [vpn, end).  A panic ends the loop.
RECURSIVE MapAreaMap(_, _, _)
MapAreaMap(b, vpn, end) ==
    IF vpn >= end \/ b.panic THEN b
    ELSE MapAreaMap(MapOne(b, vpn), vpn + 1, end)

\* MapArea::unmap, and the loop of shrink_to: unmap_one for every page of
\* [vpn, end).
RECURSIVE MapAreaUnmap(_, _, _)
MapAreaUnmap(b, vpn, end) ==
    IF vpn >= end \/ b.panic THEN b
    ELSE MapAreaUnmap(UnmapOne(b, vpn), vpn + 1, end)

\* m with the area that an operation works on.
WithArea(m, area) ==
    [fa |-> m.fa, bytes |-> m.bytes, ms |-> m.ms, panic |-> m.panic,
     area |-> area]

\* MemorySet::push without data: map the area, then append it to areas.
PushArea(m, area) ==
    LET b == MapAreaMap(WithArea(m, area), area.vpn_range[1], area.vpn_range[2])
    IN [fa |-> b.fa, bytes |-> b.bytes, panic |-> b.panic,
        ms |-> IF b.panic THEN b.ms
               ELSE [b.ms EXCEPT !.areas = Append(@, b.area)]]

\* MemorySet::insert_framed_area.
InsertFramedArea(m, start_vpn, end_vpn, permission) ==
    PushArea(m, MapAreaNew(start_vpn, end_vpn, "Framed", permission))

\* The index of the first area that starts at start_vpn, 0 if there is none.
FindArea(ms, start_vpn) ==
    LET found == {i \in 1..Len(ms.areas) : ms.areas[i].vpn_range[1] = start_vpn}
    IN IF found = {} THEN 0 ELSE CHOOSE i \in found : \A j \in found : i <= j

\* An operation of the area at index idx has ended in b: the area is put
\* back in its place.
PutArea(b, idx) ==
    [fa |-> b.fa, bytes |-> b.bytes, panic |-> b.panic,
     ms |-> [b.ms EXCEPT !.areas[idx] = b.area]]

\* MemorySet::remove_area_with_start_vpn: unmap the area, remove it from
\* areas.
RemoveAreaWithStartVpn(m, start_vpn) ==
    LET idx == FindArea(m.ms, start_vpn) IN
    IF idx = 0 THEN m
    ELSE LET area == m.ms.areas[idx]
             b == MapAreaUnmap(WithArea(m, area), area.vpn_range[1],
                               area.vpn_range[2])
         IN [fa |-> b.fa, bytes |-> b.bytes, panic |-> b.panic,
             ms |-> IF b.panic THEN b.ms
                    ELSE [b.ms EXCEPT
                            !.areas = SubSeq(@, 1, idx - 1)
                                      \o SubSeq(@, idx + 1, Len(@))]]

\* MemorySet::shrink_to with MapArea::shrink_to: the pages of
\* [new_end, end) are unmapped, the range ends at new_end.
ShrinkTo(m, start_vpn, new_end) ==
    LET idx == FindArea(m.ms, start_vpn) IN
    IF idx = 0 THEN m
    ELSE LET area == m.ms.areas[idx]
             b == MapAreaUnmap(WithArea(m, area), new_end, area.vpn_range[2])
         IN PutArea(IF b.panic THEN b
                    ELSE [b EXCEPT !.area.vpn_range = <<area.vpn_range[1], new_end>>],
                    idx)

\* MemorySet::append_to with MapArea::append_to: the pages of
\* [end, new_end) are mapped, the range ends at new_end.
AppendTo(m, start_vpn, new_end) ==
    LET idx == FindArea(m.ms, start_vpn) IN
    IF idx = 0 THEN m
    ELSE LET area == m.ms.areas[idx]
             b == MapAreaMap(WithArea(m, area), area.vpn_range[2], new_end)
         IN PutArea(IF b.panic THEN b
                    ELSE [b EXCEPT !.area.vpn_range = <<area.vpn_range[1], new_end>>],
                    idx)

\* MapArea::copy_data: the image's bytes go to the frames of [vpn, end).
RECURSIVE CopyData(_, _, _, _)
CopyData(bytes, page_table, vpn, end) ==
    IF vpn >= end THEN bytes
    ELSE CopyData([bytes EXCEPT ![page_table[vpn]] = ElfByte(vpn)],
                  page_table, vpn + 1, end)

\* MemorySet::push with data: map the area, copy the image's bytes into its
\* frames, then append it to areas.
PushAreaData(m, area) ==
    LET b == MapAreaMap(WithArea(m, area), area.vpn_range[1], area.vpn_range[2])
    IN [fa |-> b.fa, panic |-> b.panic,
        bytes |-> IF b.panic THEN b.bytes
                  ELSE CopyData(b.bytes, b.ms.page_table,
                                area.vpn_range[1], area.vpn_range[2]),
        ms |-> IF b.panic THEN b.ms
               ELSE [b.ms EXCEPT !.areas = Append(@, b.area)]]

\* The program headers of the image of the init process: one LOAD segment.
InitImage == <<<<LoadStart, LoadEnd>>>>

\* MemorySet::from_elf, the loop over the program headers from header i on:
\* each LOAD segment [start, end) is pushed with its data.  phs holds the
\* LOAD headers in the order of the file.
RECURSIVE FromElfLoad(_, _, _)
FromElfLoad(m, phs, i) ==
    IF i > Len(phs) THEN m
    ELSE FromElfLoad(
            PushAreaData(m, MapAreaNew(phs[i][1], phs[i][2], "Framed", ElfPerm)),
            phs, i + 1)

\* MemorySet::from_elf, the same loop: max_end_vpn is assigned the end of
\* the range of each LOAD segment in turn.
RECURSIVE FromElfMaxEnd(_, _, _)
FromElfMaxEnd(phs, i, max_end_vpn) ==
    IF i > Len(phs) THEN max_end_vpn
    ELSE FromElfMaxEnd(phs, i + 1, phs[i][2])

\* MemorySet::from_elf: user_stack_bottom, one guard page above max_end_vpn.
FromElfStack(max_end_vpn) == max_end_vpn + 1

\* MemorySet::from_elf for an image with the LOAD headers phs: the
\* trampoline, the LOAD segments with their data, the user stack, the empty
\* area above the stack, the trap context.  A failed assertion of
\* PageTable::map ends it.
FromElfImage(m, phs) ==
    LET bare == MapTrampoline([m EXCEPT !.ms = NewBare])
        user_stack_bottom == FromElfStack(FromElfMaxEnd(phs, 1, 0))
        user_stack_top == user_stack_bottom + USER_STACK_PAGES
        stack == PushArea(FromElfLoad(bare, phs, 1),
                          MapAreaNew(user_stack_bottom, user_stack_top,
                                     "Framed", {"R", "W", "U"}))
        brk == PushArea(stack, MapAreaNew(user_stack_top, user_stack_top,
                                          "Framed", {"R", "W", "U"}))
    IN PushArea(brk, MapAreaNew(TRAP_CONTEXT, TRAMPOLINE, "Framed", {"R", "W"}))

\* MemorySet::from_elf of the image of the init process.
FromElf(m) == FromElfImage(m, InitImage)

\* Mutant of CopyFromSlice: the destination frame is left as allocated.
CopyFromSliceNone(bytes, dst_ppn, src_ppn) == bytes

\* dst_ppn.get_bytes_array().copy_from_slice(src_ppn.get_bytes_array()).
CopyFromSlice(bytes, dst_ppn, src_ppn) ==
    [bytes EXCEPT ![dst_ppn] = bytes[src_ppn]]

\* from_existed_user's inner loop: for vpn in area.vpn_range, copy the page
\* from the frame the source maps to the frame the new space maps.
RECURSIVE CopyPages(_, _, _, _, _)
CopyPages(bytes, src_pt, dst_pt, vpn, end) ==
    IF vpn >= end THEN bytes
    ELSE CopyPages(CopyFromSlice(bytes, dst_pt[vpn], src_pt[vpn]),
                   src_pt, dst_pt, vpn + 1, end)

\* from_existed_user's outer loop over user_space.areas, from index i.
RECURSIVE FromExistedAreas(_, _, _)
FromExistedAreas(m, user_space, i) ==
    IF i > Len(user_space.areas) THEN m
    ELSE LET area == user_space.areas[i]
             pushed == PushArea(m, FromAnother(area))
             copied == [pushed EXCEPT
                          !.bytes = CopyPages(@, user_space.page_table,
                                              pushed.ms.page_table,
                                              area.vpn_range[1],
                                              area.vpn_range[2])]
         IN FromExistedAreas(copied, user_space, i + 1)

\* MemorySet::from_existed_user: [fa, bytes, ms, panic] with ms the new
\* space.
FromExistedUser(fa, bytes, user_space) ==
    FromExistedAreas(MapTrampoline([fa |-> fa, bytes |-> bytes,
                                    ms |-> NewBare, panic |-> FALSE]),
                     user_space, 1)

\* Dropping the areas from index i on: every FrameTracker of data_frames
\* is dropped in key order and its frame goes back to the allocator.
RECURSIVE DropFrames(_, _, _)
DropFrames(fa, data_frames, k) ==
    IF k > Len(data_frames) THEN fa
    ELSE DropFrames(FrameDealloc(fa, data_frames[k][2]), data_frames, k + 1)

RECURSIVE DropAreas(_, _, _)
DropAreas(fa, areas, i) ==
    IF i > Len(areas) THEN fa
    ELSE DropAreas(DropFrames(fa, areas[i].data_frames, 1), areas, i + 1)

\* MemorySet::recycle_data_pages: areas.clear(); the page table is kept.
RecycleDataPages(m, p) ==
    [m EXCEPT !.fa = DropAreas(@, m.space[p].areas, 1),
              !.space[p].areas = <<>>]

\* Dropping the MemorySet of slot p: the areas drop their data frames.
DropMemorySet(m, p) ==
    [m EXCEPT !.fa = DropAreas(@, m.space[p].areas, 1),
              !.space[p] = NewBare]

\* The pages that the areas of a space cover.
AreaVpns(ms) ==
    {v \in Vpns : \E i \in 1..Len(ms.areas) :
        ms.areas[i].vpn_range[1] <= v /\ v < ms.areas[i].vpn_range[2]}

\* The pages that user code and user buffers use: those of the areas that
\* carry U.
UserVpns(ms) == {v \in AreaVpns(ms) : "U" \in ms.flags[v]}

\* MemorySet::translate(vpn).ppn(), 0 when the page is not mapped.
Translate(ms, vpn) == ms.page_table[vpn]

\* VirtAddr::floor and VirtAddr::page_offset.
VaFloor(va) == va \div PAGE_SIZE
PageOffset(va) == va % PAGE_SIZE

\* The entry of vpn in its last-level table.  The pages outside Vpns are
\* never mapped: their entries are PageTableEntry::empty().
LeafEntry(ms, vpn) ==
    IF vpn \in Vpns THEN [ppn |-> ms.page_table[vpn], flags |-> ms.flags[vpn]]
    ELSE [ppn |-> 0, flags |-> {}]

\* PageTable::find_pte: None (<<>>) when an interior entry on the way is
\* not valid; otherwise the entry of the last level, whatever it holds.
FindPte(ms, vpn) ==
    IF LeafTable(vpn) \notin ms.nodes THEN <<>>
    ELSE <<LeafEntry(ms, vpn)>>

\* PageTable::translate: a copy of the entry that find_pte finds.
PageTableTranslate(ms, vpn) == FindPte(ms, vpn)

\* PageTable::translate_va: the physical address, or <<>> for None.
TranslateVa(ms, va) ==
    LET pte == FindPte(ms, VaFloor(va)) IN
    IF pte = <<>> THEN <<>>
    ELSE <<pte[1].ppn * PAGE_SIZE + PageOffset(va)>>

\* translated_refmut: translate_va(va).unwrap().get_mut(); the physical
\* address that the reference points to, or a panic.
TranslatedRefmut(ms, va) ==
    IF TranslateVa(ms, va) = <<>> THEN [panic |-> TRUE, out |-> <<>>]
    ELSE [panic |-> FALSE, out |-> TranslateVa(ms, va)]

\* translated_byte_buffer's loop from start on; v holds a slice
\* <<ppn, from, to>> for each page of the buffer.
RECURSIVE TranslatedByteBufferLoop(_, _, _, _)
TranslatedByteBufferLoop(ms, start, end, v) ==
    IF start >= end THEN [panic |-> FALSE, out |-> v]
    ELSE LET vpn == VaFloor(start)
             pte == PageTableTranslate(ms, vpn)
             page_end == (vpn + 1) * PAGE_SIZE
             end_va == IF page_end < end THEN page_end ELSE end
         IN IF pte = <<>> THEN [panic |-> TRUE, out |-> v]
            ELSE TranslatedByteBufferLoop(ms, end_va, end,
                    Append(v, <<pte[1].ppn, PageOffset(start),
                                IF PageOffset(end_va) = 0 THEN PAGE_SIZE
                                ELSE PageOffset(end_va)>>))

\* translated_byte_buffer(token, ptr, len).
TranslatedByteBuffer(ms, ptr, len) ==
    TranslatedByteBufferLoop(ms, ptr, ptr + len, <<>>)

\* Memory after main.rs has loaded INITPROC with TaskControlBlock::new.
\* queue_frames is QUEUE_FRAMES of the virtio driver, dma the allocations
\* <<base, pages>> that the driver holds, ops the number of operations on
\* areas so far.
InitMem ==
    LET m == FromElf([fa |-> FrameAllocatorInit, bytes |-> [f \in Frames |-> 0],
                      ms |-> NewBare, panic |-> FALSE])
    IN [fa |-> m.fa, bytes |-> m.bytes,
        space |-> [s \in Slots |-> IF s = INITPROC THEN m.ms ELSE NewBare],
        queue_frames |-> <<>>, dma |-> {}, ops |-> 0]

----------------------------------------------------------------------------
(* PID allocator. *)

\* PidAllocator::alloc: the pid handed out.
PidAllocPid(pa) ==
    IF pa.recycled # <<>> THEN pa.recycled[Len(pa.recycled)] ELSE pa.current

\* Mutant of PidAllocNext: a recycled pid is handed out and stays recycled.
PidAllocNextKeep(pa) ==
    IF pa.recycled # <<>> THEN pa ELSE [pa EXCEPT !.current = pa.current + 1]

\* PidAllocator::alloc: the allocator afterwards.
PidAllocNext(pa) ==
    IF pa.recycled # <<>>
    THEN [pa EXCEPT !.recycled = SubSeq(pa.recycled, 1, Len(pa.recycled) - 1)]
    ELSE [pa EXCEPT !.current = pa.current + 1]

\* PidAllocator::dealloc's two assertions.
PidDeallocOk(pa, pid) ==
    /\ pid < pa.current
    /\ \A i \in 1..Len(pa.recycled) : pa.recycled[i] # pid

\* Mutant of PidDealloc: the pid is not pushed onto the recycled list.
PidDeallocLost(pa, pid) == pa

\* PidAllocator::dealloc: the allocator afterwards.
PidDealloc(pa, pid) == [pa EXCEPT !.recycled = Append(pa.recycled, pid)]

----------------------------------------------------------------------------
(* Task manager and processor. *)

\* manager::add_task: insert into PID2TCB and push to the back of the queue.
AddTaskQueue(q, t) == Append(q, t)

\* manager::fetch_task: pop the front of the queue.
FetchTask(q) == Head(q)

SeqToSet(s) == {s[i] : i \in 1..Len(s)}

\* The slot that Arc::new gives a new TaskControlBlock: the lowest free one.
FreshSlot == CHOOSE c \in Slots : tcb[c].status = "Free" /\
                 \A d \in Slots : tcb[d].status = "Free" => c <= d

Running(p) ==
    /\ halted = "no"
    /\ ~cells.error
    /\ current = p
    /\ p \in Slots
    /\ tcb[p].status = "Running"

InUser(p) == Running(p) /\ tcb[p].kpc = "user"

----------------------------------------------------------------------------
(* The block cache of easy-fs (easy-fs/src/block_cache.rs): data. *)

BLOCK_CACHE_SIZE == 16

\* Blocks of the device: more than the cache holds, by ExtraBlocks.
ExtraBlocks == 1
Blocks == 0..(BLOCK_CACHE_SIZE + ExtraBlocks - 1)

\* The content of a block is one number; every block of the device starts
\* with content 0.
DiskInit == [b \in Blocks |-> 0]

\* BlockCacheManager::new: an empty queue.
BlockCacheManagerNew == [queue |-> <<>>]

\* BlockDevice::read_block and write_block.
ReadBlock(d, block_id) == d[block_id]
WriteBlock(d, block_id, buf) == [d EXCEPT ![block_id] = buf]

\* BlockCache::new followed by Arc::new and the clone pushed on the queue
\* (block_cache.rs 26-35, 147-151): the block is read from the device; the
\* queue and the caller hold one reference each.
BlockCacheNew(block_id, d) ==
    [block_id |-> block_id, cache |-> ReadBlock(d, block_id),
     modified |-> FALSE, strong |-> 2]

\* Mutant of SyncDisk: a dirty block is not written to the device.
SyncDiskNone(e, d) == d

\* Mutant of SyncEntry: the entry stays dirty.
SyncEntryKeepDirty(e) == e

\* BlockCache::sync (block_cache.rs 82-88): what it does to the device, to
\* the entry, and the write_block calls it makes.
SyncDisk(e, d) == IF e.modified THEN WriteBlock(d, e.block_id, e.cache) ELSE d
SyncEntry(e) == [e EXCEPT !.modified = FALSE]
SyncWrote(e) == IF e.modified THEN <<e.block_id>> ELSE <<>>

\* queue.iter().find(|pair| pair.0 == block_id) (block_cache.rs 125): the
\* index of the first entry of the block, 0 for None.
FindBlock(queue, block_id) ==
    IF \E i \in 1..Len(queue) : queue[i].block_id = block_id
    THEN CHOOSE i \in 1..Len(queue) :
            /\ queue[i].block_id = block_id
            /\ \A j \in 1..(i - 1) : queue[j].block_id # block_id
    ELSE 0

\* Mutant of FindVictim: the last entry that no caller holds.
FindVictimLast(queue) ==
    IF \E i \in 1..Len(queue) : queue[i].strong = 1
    THEN CHOOSE i \in 1..Len(queue) :
            /\ queue[i].strong = 1
            /\ \A j \in (i + 1)..Len(queue) : queue[j].strong # 1
    ELSE 0

\* queue.iter().enumerate().find(|(_, pair)| Arc::strong_count(&pair.1) == 1)
\* (block_cache.rs 133-137): from front to tail, 0 for None.
FindVictim(queue) ==
    IF \E i \in 1..Len(queue) : queue[i].strong = 1
    THEN CHOOSE i \in 1..Len(queue) :
            /\ queue[i].strong = 1
            /\ \A j \in 1..(i - 1) : queue[j].strong # 1
    ELSE 0

\* Mutant of Drain: nothing is removed.
DrainNone(queue, idx) == queue

\* queue.drain(idx..=idx) (block_cache.rs 139).
Drain(queue, idx) == SubSeq(queue, 1, idx - 1) \o SubSeq(queue, idx + 1, Len(queue))

----------------------------------------------------------------------------
(* Exclusive borrows.  PROCESSOR, the inner state of every task and the
   ring of the pipe are UPSafeCells: exclusive_access() panics when the cell
   is borrowed already, and the borrow lasts until the guard is dropped.
   The kernel takes no interrupt while it runs (trap_from_kernel panics), so
   a control flow keeps the processor from its entry to its __switch or to
   its return to user mode; each handler is the list of its borrows, drops
   and switches in program order. *)

PROCESSOR == <<"PROCESSOR", 0>>
Inner(p) == <<"inner", p>>
RingCell == <<"ring", 0>>

\* let guard = cell.exclusive_access();
Borrow(cell) == [op |-> "borrow", cell |-> cell]
\* drop(guard), or the end of the guard's scope.
Drop(cell) == [op |-> "drop", cell |-> cell]
\* cell.exclusive_access() as a temporary: borrowed and released within one
\* statement.
Scoped(cell) == [op |-> "scoped", cell |-> cell]
\* __switch.
Switch == [op |-> "switch", cell |-> <<"", 0>>]

\* No cell is borrowed, and none was at the latest __switch.
NoCells == [taken |-> {}, at_switch |-> {}, error |-> FALSE]

\* One statement: a borrow of a borrowed cell is a BorrowMutError (a kernel
\* panic); __switch leaves the borrows of the outgoing control flow in place.
RunStmt(c, stmt) ==
    CASE stmt.op = "borrow" ->
            IF stmt.cell \in c.taken THEN [c EXCEPT !.error = TRUE]
            ELSE [c EXCEPT !.taken = @ \cup {stmt.cell}]
      [] stmt.op = "scoped" ->
            IF stmt.cell \in c.taken THEN [c EXCEPT !.error = TRUE] ELSE c
      [] stmt.op = "drop" -> [c EXCEPT !.taken = @ \ {stmt.cell}]
      [] stmt.op = "switch" -> [c EXCEPT !.at_switch = c.taken]

\* The statements of a handler from the i-th on; the panic ends the kernel.
RECURSIVE RunStmts(_, _, _)
RunStmts(c, stmts, i) ==
    IF i > Len(stmts) \/ c.error THEN c
    ELSE RunStmts(RunStmt(c, stmts[i]), stmts, i + 1)

\* take_current_task and current_task (processor.rs 83-89).
TakeCurrentTask == <<Scoped(PROCESSOR)>>
CurrentTask == <<Scoped(PROCESSOR)>>

\* current_trap_cx and current_user_token (processor.rs 91-102).
CurrentTrapCx(p) == CurrentTask \o <<Scoped(Inner(p))>>
CurrentUserToken(p) == CurrentTask \o <<Scoped(Inner(p))>>

\* schedule (processor.rs 106-113).
Schedule == <<Borrow(PROCESSOR), Drop(PROCESSOR), Switch>>

\* suspend_current_and_run_next (task/mod.rs 48-69).
SuspendCurrentAndRunNext(p) ==
    TakeCurrentTask \o <<Borrow(Inner(p)), Drop(Inner(p))>> \o Schedule

\* exit_current_and_run_next (task/mod.rs 75-129) of a task other than the
\* idle process, whose children are kids: inner, then initproc_inner in its
\* block, each child's inner in the loop, drop(inner), schedule.
ExitCurrentAndRunNext(p, kids) ==
    TakeCurrentTask
    \o <<Borrow(Inner(p)), Borrow(Inner(INITPROC))>>
    \o [i \in 1..Len(kids) |-> Scoped(Inner(kids[i]))]
    \o <<Drop(Inner(INITPROC)), Drop(Inner(p))>>
    \o Schedule

\* run_tasks (processor.rs 54-80), an iteration that fetches task t.
RunTasksFetched(t) ==
    <<Borrow(PROCESSOR), Borrow(Inner(t)), Drop(Inner(t)), Drop(PROCESSOR),
      Switch>>

\* Mutant of PipeBlocks: the guard of the ring is kept over the suspend.
PipeBlocksHolding(p) == SuspendCurrentAndRunNext(p)

\* Pipe::read and Pipe::write with nothing to read or no room to write
\* (fs/pipe.rs 147-156, 180-184): drop(ring_buffer), then suspend.
PipeBlocks(p) == <<Drop(RingCell)>> \o SuspendCurrentAndRunNext(p)

\* Pipe::read and Pipe::write return: the guard goes out of scope, and
\* trap_handler takes the trap context again for the result.
PipeReturns(p) == <<Drop(RingCell)>> \o CurrentTrapCx(p)

\* One pass of handle_signals's loop (task/mod.rs 265-282): each iteration
\* of check_pending_signals and the block that reads frozen and killed
\* borrow the task's inner state and release it.
HandleSignalsPass(p) ==
    CurrentTask \o <<Borrow(Inner(p)), Drop(Inner(p))>>
    \o CurrentTask \o <<Borrow(Inner(p)), Drop(Inner(p))>>

\* The borrows after handler stmts has run.
Track(stmts) == RunStmts(cells, stmts, 1)

----------------------------------------------------------------------------
(* Initial state: main.rs has added INITPROC to the task manager. *)

InitTcb == [s \in Slots |-> IF s = INITPROC THEN NewTcb(0) ELSE FreeTcb]

Init ==
    /\ tcb = InitTcb
    /\ ready = <<INITPROC>>
    /\ current = 0
    /\ pidalloc = [current |-> 1, recycled |-> <<>>]
    /\ pid2tcb = [p \in Pids |-> IF p = 0 THEN INITPROC ELSE 0]
    /\ last = NoLast
    /\ halted = "no"
    /\ ring = EmptyRing
    /\ accepted = <<>>
    /\ delivered = <<>>
    /\ mem = InitMem
    /\ bcm = BlockCacheManagerNew
    /\ disk = DiskInit
    /\ held = <<>>
    /\ written = DiskInit
    /\ wrote = <<>>
    /\ bmlog = <<>>
    /\ cells = NoCells
    /\ mtimecmp = "set"

----------------------------------------------------------------------------
(* Scheduling: suspend_current_and_run_next, run_tasks. *)

\* Mutant of SuspendTcb: the status of the suspended task stays Running.
SuspendTcbRunning(t, p, k) == [t EXCEPT ![p].kpc = k]

\* suspend_current_and_run_next: take the current task, mark it Ready
\* (task/mod.rs 51-58); k is where the task continues when switched back to.
SuspendTcb(t, p, k) == [t EXCEPT ![p].status = "Ready", ![p].kpc = k]

\* Mutant of SuspendQueue: the task is put at the front of the queue.
SuspendQueueFront(q, p) == <<p>> \o q

\* suspend_current_and_run_next: add_task(task) puts it at the back of the
\* ready queue (task/mod.rs 62).
SuspendQueue(q, p) == AddTaskQueue(q, p)

\* run_tasks: one iteration of the idle loop that finds a task
\* (processor.rs 56-78): fetch it, mark it Running, make it current, switch.
RunTasks ==
    /\ halted = "no"
    /\ ~cells.error
    /\ current = 0
    /\ ready # <<>>
    /\ LET t == FetchTask(ready) IN
        /\ tcb' = [tcb EXCEPT ![t].status = "Running"]
        /\ current' = t
        /\ ready' = Tail(ready)
        /\ UNCHANGED timerVars
        /\ cells' = Track(RunTasksFetched(t))
    /\ UNCHANGED <<pidalloc, pid2tcb, last, halted, cacheVars, pipeVars, memVars>>

\* trap_handler: cx.x[10] = result (trap/mod.rs 85-87).
WriteResult(cx, result) == [cx EXCEPT !.a0 = result]

\* trap_handler, UserEnvCall of sys_yield: sepc += 4, then the task is
\* suspended inside the system call; the 0 it returns is written on resume.
SysYield(p) ==
    /\ InUser(p)
    /\ tcb' = SuspendTcb([tcb EXCEPT ![p].cx.sepc = NextPc(@)], p, "ret_yield")
    /\ ready' = SuspendQueue(ready, p)
    /\ current' = 0
    /\ UNCHANGED timerVars
    /\ cells' = Track(CurrentTrapCx(p) \o SuspendCurrentAndRunNext(p))
    /\ last' = NoLast
    /\ UNCHANGED <<pidalloc, pid2tcb, halted, cacheVars, pipeVars, memVars>>

\* Mutant of SetNextTrigger: no new trigger is set.
SetNextTriggerNone(cmp) == cmp

\* timer::set_next_trigger: set_timer(get_time() + CLOCK_FREQ / TICKS_PER_SEC),
\* a trigger that lies ahead (timer.rs 27-30).
SetNextTrigger(cmp) == "set"

\* trap_handler, SupervisorTimer: set_next_trigger(); suspend (trap/mod.rs 109-112).
TimerInterrupt(p) ==
    /\ InUser(p)
    /\ mtimecmp = "set"
    /\ tcb' = SuspendTcb(tcb, p, "ret")
    /\ ready' = SuspendQueue(ready, p)
    /\ current' = 0
    /\ mtimecmp' = SetNextTrigger("fired")
    /\ cells' = Track(SuspendCurrentAndRunNext(p))
    /\ last' = NoLast
    /\ UNCHANGED <<pidalloc, pid2tcb, halted, cacheVars, pipeVars, memVars>>

\* Where a task that is not in user mode continues (its saved TaskContext):
\*   "new"        TaskContext::goto_trap_return, never run yet
\*   "ret"        inside trap_handler after the timer's suspend, or after a
\*                system call whose result is already in a0
\*   "ret_yield"  inside sys_yield's suspend; 0 is still to be written to a0
\* The tail of trap_handler as coded (trap/mod.rs 83-88, 121): the pending
\* result of a system call that suspended is written, then trap_return().
TrapReturnTcb(t, p) ==
    [t EXCEPT ![p].cx = IF t[p].kpc = "ret_yield" THEN WriteResult(@, 0) ELSE @,
              ![p].kpc = "user"]

TrapReturn(p) ==
    /\ Running(p)
    /\ tcb[p].kpc \in {"new", "ret", "ret_yield"}
    /\ tcb' = TrapReturnTcb(tcb, p)
    /\ UNCHANGED timerVars
    /\ cells' = Track(CurrentUserToken(p))
    /\ last' = NoLast
    /\ UNCHANGED <<ready, current, pidalloc, pid2tcb, halted, cacheVars, pipeVars, memVars>>

----------------------------------------------------------------------------
(* fork. *)

\* Mutant of SysForkPatch: the child's a0 is left as copied from the parent.
SysForkNoPatch(cx) == cx

\* sys_fork: trap_cx.x[10] = 0 in the child (syscall/process.rs 52-55).
SysForkPatch(cx) == [cx EXCEPT !.a0 = 0]

\* TaskControlBlock::fork (task/task.rs 241-305): the child's control block.
\* The trap context is copied with the address space; kernel_sp is patched.
ForkTcb(parent, p, pid) ==
    [status |-> "Ready", pid |-> pid, kpc |-> "new", parent |-> p,
     children |-> <<>>, exit_code |-> 0,
     cx |-> [parent.cx EXCEPT !.kernel_sp = KernelStackTop(pid)],
     signals |-> {},
     signal_mask |-> parent.signal_mask, handling_sig |-> 0 - 1,
     signal_actions |-> parent.signal_actions, killed |-> FALSE,
     frozen |-> FALSE, trap_ctx_backup |-> <<>>,
     fd_table |-> parent.fd_table, kloc |-> NoLocals, saved |-> <<>>]

\* trap_handler + sys_fork (trap/mod.rs 79-87, syscall/process.rs 47-60).
SysFork(p) ==
    /\ InUser(p)
    /\ \E c \in Slots : tcb[c].status = "Free"
    /\ LET c == FreshSlot
           pid == PidAllocPid(pidalloc)
           ptcb == [tcb[p] EXCEPT !.cx.sepc = NextPc(@)]
           child == ForkTcb(ptcb, p, pid)
       IN
        /\ tcb' = [tcb EXCEPT
                     ![p] = [ptcb EXCEPT !.children = Append(@, c),
                                         !.cx = WriteResult(@, pid),
                                         !.kpc = "ret"],
                     ![c] = [child EXCEPT !.cx = SysForkPatch(@)]]
        /\ ready' = AddTaskQueue(ready, c)
        /\ pid2tcb' = [pid2tcb EXCEPT ![pid] = c]
        /\ pidalloc' = PidAllocNext(pidalloc)
        /\ last' = [op |-> "fork", who |-> p, arg |-> 0, arg2 |-> 0, out |-> <<>>]
        /\ LET m == FromExistedUser(mem.fa, mem.bytes, mem.space[p]) IN
           mem' = [mem EXCEPT !.fa = m.fa, !.bytes = m.bytes,
                              !.space[c] = m.ms]
    /\ UNCHANGED <<current, halted, cacheVars, cellVars, timerVars, pipeVars>>

----------------------------------------------------------------------------
(* exit. *)

\* Mutant of ExitTcb: the children are handed to INITPROC and stay in the
\* list of the exiting task.
ExitTcbKeepChildren(t, p, code) ==
    LET kids == t[p].children IN
    [s \in Slots |->
        IF s = p
        THEN [t[p] EXCEPT !.status = "Zombie", !.exit_code = code,
                          !.kpc = "none",
                          !.cx = AppInitContext(0, 0),
                          !.kloc = NoLocals, !.saved = <<>>]
        ELSE IF s = INITPROC
        THEN [t[s] EXCEPT !.children = @ \o kids]
        ELSE IF s \in SeqToSet(kids)
        THEN [t[s] EXCEPT !.parent = INITPROC]
        ELSE t[s]]

\* exit_current_and_run_next (task/mod.rs 94-124) for a task other than
\* INITPROC: the control blocks afterwards.  recycle_data_pages releases
\* the frame holding the trap context, so the zombie keeps none.
ExitTcb(t, p, code) ==
    LET kids == t[p].children IN
    [s \in Slots |->
        IF s = p
        THEN [t[p] EXCEPT !.status = "Zombie", !.exit_code = code,
                          !.children = <<>>, !.kpc = "none",
                          !.cx = AppInitContext(0, 0),
                          !.kloc = NoLocals, !.saved = <<>>]
        ELSE IF s = INITPROC
        THEN [t[s] EXCEPT !.children = @ \o kids,
                          !.parent = IF s \in SeqToSet(kids) THEN INITPROC ELSE @]
        ELSE IF s \in SeqToSet(kids)
        THEN [t[s] EXCEPT !.parent = INITPROC]
        ELSE t[s]]

\* Mutant of RemoveFromPid2Task: the entry of the exiting task stays.
RemoveFromPid2TaskNone(p2t, pid) == p2t

\* exit_current_and_run_next: remove_from_pid2task(task.getpid())
\* (task/mod.rs 94-95).
RemoveFromPid2Task(p2t, pid) == [p2t EXCEPT ![pid] = 0]

\* exit_current_and_run_next (task/mod.rs 75-129).
ExitCurrent(p, code) ==
    IF tcb[p].pid = IDLE_PID
    THEN /\ halted' = "shutdown"
         /\ UNCHANGED cacheVars
         /\ UNCHANGED timerVars
         /\ cells' = Track(TakeCurrentTask)
         /\ current' = 0
         /\ last' = NoLast
         /\ UNCHANGED <<tcb, ready, pidalloc, pid2tcb, memVars>>
    ELSE /\ tcb' = ExitTcb(tcb, p, code)
         /\ pid2tcb' = RemoveFromPid2Task(pid2tcb, tcb[p].pid)
         /\ mem' = RecycleDataPages(mem, p)
         /\ current' = 0
         /\ UNCHANGED timerVars
         /\ cells' = Track(ExitCurrentAndRunNext(p, tcb[p].children))
         /\ last' = NoLast
         /\ UNCHANGED <<ready, pidalloc, halted, cacheVars>>

\* sys_exit (syscall/process.rs 14-17).
SysExit(p, code) ==
    /\ InUser(p)
    /\ ExitCurrent(p, code)
    /\ UNCHANGED pipeVars

\* trap_handler: page faults exit with -2, illegal instructions with -3
\* (trap/mod.rs 89-108).
Fault(p, code) ==
    /\ InUser(p)
    /\ code \in {0 - 2, 0 - 3}
    /\ ExitCurrent(p, code)
    /\ UNCHANGED pipeVars

----------------------------------------------------------------------------
(* waitpid. *)

\* sys_waitpid's match: pid == -1 || pid as usize == p.getpid().
WaitMatches(t, c, pidarg) == pidarg = 0 - 1 \/ pidarg = t[c].pid

\* sys_waitpid: children.iter().any(...) (syscall/process.rs 112-119).
WaitAnyChild(t, p, pidarg) ==
    \E i \in 1..Len(t[p].children) : WaitMatches(t, t[p].children[i], pidarg)

\* Mutant of WaitFind: the pid argument is not compared.
WaitFindAnyZombie(t, p, pidarg) ==
    LET hits == {i \in 1..Len(t[p].children) :
                    t[t[p].children[i]].status = "Zombie"}
    IN IF hits = {} THEN 0 ELSE CHOOSE i \in hits : \A j \in hits : i <= j

\* Mutant of WaitFind: no zombie is ever found.
WaitFindNone(t, p, pidarg) == 0

\* sys_waitpid: the index found by enumerate().find(zombie && match), 0 for None
\* (syscall/process.rs 121-125).
WaitFind(t, p, pidarg) ==
    LET hits == {i \in 1..Len(t[p].children) :
                    /\ t[t[p].children[i]].status = "Zombie"
                    /\ WaitMatches(t, t[p].children[i], pidarg)}
    IN IF hits = {} THEN 0 ELSE CHOOSE i \in hits : \A j \in hits : i <= j

\* Removal of index i of a sequence (Vec::remove).
RemoveAt(s, i) == SubSeq(s, 1, i - 1) \o SubSeq(s, i + 1, Len(s))

\* Arc::strong_count of the control block in slot c.
StrongCount(t, q, cur, p2t, c) ==
    Cardinality({i \in 1..Len(q) : q[i] = c})
    + (IF cur = c THEN 1 ELSE 0)
    + Cardinality({pid \in Pids : p2t[pid] = c})
    + Cardinality({<<s, i>> \in Slots \X (1..MaxTasks) :
                      t[s].status # "Free" /\ i <= Len(t[s].children)
                      /\ t[s].children[i] = c})

\* sys_waitpid's return value (syscall/process.rs 106-147).
WaitResult(t, p, pidarg) ==
    IF ~WaitAnyChild(t, p, pidarg) THEN 0 - 1
    ELSE IF WaitFind(t, p, pidarg) = 0 THEN 0 - 2
    ELSE t[t[p].children[WaitFind(t, p, pidarg)]].pid

\* trap_handler + sys_waitpid (trap/mod.rs 79-87, syscall/process.rs 106-147).
\* last.out is what *translated_refmut(token, exit_code_ptr) is set to.
SysWaitpid(p, pidarg) ==
    /\ InUser(p)
    /\ LET ptcb == [tcb[p] EXCEPT !.cx.sepc = NextPc(@)]
           idx == WaitFind(tcb, p, pidarg)
           res == WaitResult(tcb, p, pidarg)
       IN
        IF res < 0
        THEN /\ tcb' = [tcb EXCEPT ![p] = [ptcb EXCEPT !.cx = WriteResult(@, res),
                                                      !.kpc = "ret"]]
             /\ last' = [op |-> "waitpid", who |-> p, arg |-> pidarg, arg2 |-> 0,
                          out |-> <<>>]
             /\ UNCHANGED <<pidalloc, halted, cacheVars, cellVars, timerVars, memVars>>
        ELSE LET c == tcb[p].children[idx] IN
             IF \/ StrongCount(tcb, ready, current, pid2tcb, c) # 1
                \/ ~PidDeallocOk(pidalloc, tcb[c].pid)
             THEN /\ halted' = "panic"
                  /\ UNCHANGED <<cacheVars, cellVars, timerVars>>
                  /\ last' = NoLast
                  /\ UNCHANGED <<tcb, pidalloc, memVars>>
             ELSE /\ tcb' = [tcb EXCEPT
                               ![p] = [ptcb EXCEPT
                                         !.children = RemoveAt(@, idx),
                                         !.cx = WriteResult(@, res),
                                         !.kpc = "ret"],
                               ![c] = FreeTcb]
                  /\ pidalloc' = PidDealloc(pidalloc, tcb[c].pid)
                  /\ mem' = DropMemorySet(mem, c)
                  /\ last' = [op |-> "waitpid", who |-> p, arg |-> pidarg,
                               arg2 |-> 0, out |-> <<tcb[c].exit_code>>]
                  /\ UNCHANGED <<halted, cacheVars, cellVars, timerVars>>
    /\ UNCHANGED <<ready, current, pid2tcb, pipeVars>>

----------------------------------------------------------------------------
(* The process core.  Every process yields, forks, exits or faults, and the
   timer interrupts whoever runs; INITPROC, the process that orphans are
   handed to, is the one that calls sys_waitpid, with every pid argument
   (wait and waitpid of user/src/lib.rs 125-150). *)

PidArgs == {0 - 1} \cup Pids

Next ==
    \/ RunTasks
    \/ \E p \in Slots : TrapReturn(p)
    \/ \E p \in Slots : SysYield(p)
    \/ \E p \in Slots : TimerInterrupt(p)
    \/ \E p \in Slots : SysFork(p)
    \/ \E p \in Slots : \E code \in ExitCodes : SysExit(p, code)
    \/ \E p \in Slots : \E code \in {0 - 2, 0 - 3} : Fault(p, code)
    \/ \E pidarg \in PidArgs : SysWaitpid(INITPROC, pidarg)

Spec == Init /\ [][Next]_vars

----------------------------------------------------------------------------
(* Signals: kill, sigprocmask, sigaction, sigreturn, handle_signals. *)

\* Number of tasks alive at once in the signal specifications.
SigTasks == 2
\* Handler dispatches one task may have outstanding or pending at once.
MaxDispatch == 2

\* The signals check_pending_signals hands to call_kernel_signal_handler.
KernelSigs == {SIGKILL, SIGSTOP, SIGCONT, SIGDEF}
\* The signals user programs register handlers for.
UserSigs == {SIGUSR1, SIGUSR2}

\* Entry address of the user program's handler for signal s: each handler is
\* a code region of its own, apart from the region of main (pcs from 0).
HandlerVa(s) == IF s = SIGUSR1 THEN RegionBytes ELSE 2 * RegionBytes

RECURSIVE Pow2(_)
Pow2(n) == IF n = 0 THEN 1 ELSE 2 * Pow2(n - 1)

RECURSIVE SumBits(_)
SumBits(m) ==
    IF m = {} THEN 0
    ELSE LET s == CHOOSE x \in m : TRUE IN Pow2(s) + SumBits(m \ {s})

\* SignalFlags::bits() of a set of signals below 31.
MaskBits(m) == SumBits(m)

\* SignalFlags::from_bits(1 << signum) for an i32 signum.  Every one of the
\* 32 bits is a defined flag, so from_bits never fails.  A shift amount
\* outside 0..31 overflows: the build with overflow checks panics, the build
\* without wraps the amount to its low five bits.
ShiftOutcomes(signum) ==
    IF signum \in 0..MAX_SIG
    THEN {[panic |-> FALSE, bit |-> signum]}
    ELSE {[panic |-> TRUE, bit |-> 0], [panic |-> FALSE, bit |-> signum % (MAX_SIG + 1)]}

\* trap_handler, UserEnvCall: cx.sepc += 4 before the call is served.
EnterSyscall(t, p) == [t EXCEPT ![p].cx.sepc = NextPc(@)]

\* trap_handler, UserEnvCall: cx.x[10] = result after the call has returned.
LeaveSyscall(t, p, result) ==
    [t EXCEPT ![p].cx = WriteResult(@, result), ![p].kpc = "ret"]

\* Mutant of SysKillSignals: the bit is toggled.
SysKillToggle(sigs, bit) == IF bit \in sigs THEN sigs \ {bit} ELSE sigs \cup {bit}

\* sys_kill: the target's pending set afterwards (syscall/process.rs 153-157).
SysKillSignals(sigs, bit) == IF bit \in sigs THEN sigs ELSE sigs \cup {bit}

\* sys_kill: the value returned for a target that exists.
SysKillResult(sigs, bit) == IF bit \in sigs THEN 0 - 1 ELSE 0

\* trap_handler + sys_kill (trap/mod.rs 79-87, syscall/process.rs 149-165).
SysKill(p, pid, signum) ==
    /\ InUser(p)
    /\ LET t == pid2tcb[pid]
           rec == [op |-> "kill", who |-> p, arg |-> pid, arg2 |-> signum,
                   out |-> <<>>]
       IN
        IF t = 0
        THEN /\ tcb' = LeaveSyscall(EnterSyscall(tcb, p), p, 0 - 1)
             /\ last' = rec
             /\ UNCHANGED <<halted, cacheVars, cellVars, timerVars>>
        ELSE \E o \in ShiftOutcomes(signum) :
             IF o.panic
             THEN /\ halted' = "panic"
                  /\ UNCHANGED <<cacheVars, cellVars, timerVars>>
                  /\ last' = NoLast
                  /\ UNCHANGED tcb
             ELSE /\ tcb' = LeaveSyscall(
                               [EnterSyscall(tcb, p) EXCEPT
                                   ![t].signals = SysKillSignals(@, o.bit)],
                               p, SysKillResult(tcb[t].signals, o.bit))
                  /\ last' = rec
                  /\ UNCHANGED <<halted, cacheVars, cellVars, timerVars>>
    /\ UNCHANGED <<ready, current, pidalloc, pid2tcb, pipeVars, memVars>>

\* trap_handler + sys_sigprocmask (syscall/process.rs 168-181); the mask is
\* a set of defined flags, so from_bits succeeds.
SysSigprocmask(p, mask) ==
    /\ InUser(p)
    /\ tcb' = LeaveSyscall(
                 [EnterSyscall(tcb, p) EXCEPT ![p].signal_mask = mask],
                 p, MaskBits(tcb[p].signal_mask))
    /\ last' = [op |-> "sigprocmask", who |-> p, arg |-> MaskBits(mask),
                arg2 |-> 0, out |-> <<>>]
    /\ UNCHANGED <<ready, current, pidalloc, pid2tcb, halted, cacheVars, cellVars, timerVars, pipeVars, memVars>>

\* Mutant of CheckSigactionError: SIGSTOP is not refused.
CheckSigactionErrorNoStop(signum, action, old_action) ==
    \/ action = <<>>
    \/ ~old_action
    \/ signum = SIGKILL

\* check_sigaction_error (syscall/process.rs 202-214); a null pointer is <<>>
\* for action and FALSE for old_action.
CheckSigactionError(signum, action, old_action) ==
    \/ action = <<>>
    \/ ~old_action
    \/ signum = SIGKILL
    \/ signum = SIGSTOP

\* sys_sigaction's return value (syscall/process.rs 222-246).
SysSigactionResult(signum, action, old_action) ==
    IF signum < 0 \/ signum > MAX_SIG THEN 0 - 1
    ELSE IF CheckSigactionError(signum, action, old_action) THEN 0 - 1
    ELSE 0

\* trap_handler + sys_sigaction (syscall/process.rs 222-246); last.out is what
\* is stored through old_action.
SysSigaction(p, signum, action, old_action) ==
    /\ InUser(p)
    /\ LET res == SysSigactionResult(signum, action, old_action) IN
        IF res < 0
        THEN /\ tcb' = LeaveSyscall(EnterSyscall(tcb, p), p, res)
             /\ last' = [op |-> "sigaction", who |-> p, arg |-> signum,
                         arg2 |-> <<action, old_action>>, out |-> <<>>]
        ELSE /\ tcb' = LeaveSyscall(
                          [EnterSyscall(tcb, p) EXCEPT
                              ![p].signal_actions[signum] = action[1]],
                          p, res)
             /\ last' = [op |-> "sigaction", who |-> p, arg |-> signum,
                         arg2 |-> <<action, old_action>>,
                         out |-> <<tcb[p].signal_actions[signum]>>]
    /\ UNCHANGED <<ready, current, pidalloc, pid2tcb, halted, cacheVars, cellVars, timerVars, pipeVars, memVars>>

\* Mutant of CallKernelSignalHandler: SIGCONT leaves the task frozen.
CallKernelSignalHandlerNoCont(t, sig) ==
    IF sig = SIGSTOP
    THEN [t EXCEPT !.frozen = TRUE, !.signals = @ \ {SIGSTOP}]
    ELSE IF sig = SIGCONT
    THEN [t EXCEPT !.signals = @ \ {SIGCONT}]
    ELSE [t EXCEPT !.killed = TRUE]

\* call_kernel_signal_handler (task/mod.rs 164-188) on control block t.
CallKernelSignalHandler(t, sig) ==
    IF sig = SIGSTOP
    THEN [t EXCEPT !.frozen = TRUE, !.signals = @ \ {SIGSTOP}]
    ELSE IF sig = SIGCONT
    THEN IF SIGCONT \in t.signals
         THEN [t EXCEPT !.signals = @ \ {SIGCONT}, !.frozen = FALSE]
         ELSE t
    ELSE [t EXCEPT !.killed = TRUE]

\* call_user_signal_handler (task/mod.rs 190-217) on control block t.
CallUserSignalHandler(t, sig) ==
    LET handler == t.signal_actions[sig].handler IN
    IF handler # 0
    THEN [t EXCEPT !.handling_sig = sig, !.signals = @ \ {sig},
                   !.trap_ctx_backup = <<t.cx>>, !.saved = Append(@, t.cx),
                   !.cx = [@ EXCEPT !.sepc = handler, !.a0 = sig]]
    ELSE t

\* check_pending_signals: condition 3, whether the handler in progress masks
\* sig (task/mod.rs 227-239).
HandlerMasks(t, sig) ==
    /\ t.handling_sig # 0 - 1
    /\ sig \in t.signal_actions[t.handling_sig].mask

\* check_pending_signals (task/mod.rs 218-261): the loop from signal sig on.
RECURSIVE CheckPendingFrom(_, _)
CheckPendingFrom(t, sig) ==
    IF sig > MAX_SIG THEN t
    ELSE IF sig \in t.signals /\ sig \notin t.signal_mask /\ ~HandlerMasks(t, sig)
    THEN IF sig \in KernelSigs
         THEN CheckPendingFrom(CallKernelSignalHandler(t, sig), sig + 1)
         ELSE CallUserSignalHandler(t, sig)
    ELSE CheckPendingFrom(t, sig + 1)

CheckPendingSignals(t) == CheckPendingFrom(t, 0)

\* Mutant of HandleSignalsWaits: the loop is left at once.
HandleSignalsWaitsNever(t) == FALSE

\* handle_signals (task/mod.rs 271-278): the loop goes on, through a
\* suspend, while the task is frozen and not killed.
HandleSignalsWaits(t) == t.frozen /\ ~t.killed

\* The tail of trap_handler with handle_signals (task/mod.rs 263-282) called
\* before trap_return, as its comment and the design state.  A task that has
\* not run yet starts at trap_return and passes no handle_signals.  A frozen
\* task that is not killed is suspended inside the loop ("sig_loop") and
\* checks again when it is switched back to.
TrapReturnSig(p) ==
    /\ Running(p)
    /\ tcb[p].kpc \in {"new", "ret", "ret_yield", "sig_loop"}
    /\ last' = NoLast
    /\ IF tcb[p].kpc = "new"
       THEN /\ tcb' = TrapReturnTcb(tcb, p)
            /\ UNCHANGED timerVars
            /\ cells' = Track(CurrentUserToken(p))
            /\ UNCHANGED <<ready, current>>
       ELSE LET t0 == IF tcb[p].kpc = "ret_yield"
                      THEN [tcb[p] EXCEPT !.cx = WriteResult(@, 0)]
                      ELSE tcb[p]
                t1 == CheckPendingSignals(t0)
            IN IF HandleSignalsWaits(t1)
               THEN /\ tcb' = SuspendTcb([tcb EXCEPT ![p] = t1], p, "sig_loop")
                    /\ ready' = SuspendQueue(ready, p)
                    /\ current' = 0
                    /\ UNCHANGED timerVars
                    /\ cells' = Track(HandleSignalsPass(p)
                                      \o SuspendCurrentAndRunNext(p))
               ELSE /\ tcb' = [tcb EXCEPT ![p] = [t1 EXCEPT !.kpc = "user"]]
                    /\ UNCHANGED timerVars
                    /\ cells' = Track(HandleSignalsPass(p) \o CurrentUserToken(p))
                    /\ UNCHANGED <<ready, current>>
    /\ UNCHANGED <<pidalloc, pid2tcb, halted, cacheVars, pipeVars, memVars>>

\* trap_handler + sys_sigreturn (trap/mod.rs 79-87, syscall/process.rs
\* 184-199): unwrap of an absent backup panics.  last.out is the context the
\* innermost outstanding dispatch saved, if there is one.
SysSigreturn(p) ==
    /\ InUser(p)
    /\ IF tcb[p].trap_ctx_backup = <<>>
       THEN /\ halted' = "panic"
            /\ UNCHANGED <<cacheVars, cellVars, timerVars>>
            /\ last' = NoLast
            /\ UNCHANGED tcb
       ELSE LET backup == tcb[p].trap_ctx_backup[1]
                hist == tcb[p].saved
            IN
            /\ tcb' = LeaveSyscall(
                         [EnterSyscall(tcb, p) EXCEPT
                             ![p].handling_sig = 0 - 1,
                             ![p].cx = backup,
                             ![p].saved = IF hist = <<>> THEN <<>>
                                          ELSE SubSeq(hist, 1, Len(hist) - 1)],
                         p, backup.a0)
            /\ last' = [op |-> "sigreturn", who |-> p, arg |-> 0, arg2 |-> 0,
                        out |-> IF hist = <<>> THEN <<>>
                                ELSE <<hist[Len(hist)]>>]
            /\ UNCHANGED <<halted, cacheVars, cellVars, timerVars>>
    /\ UNCHANGED <<ready, current, pidalloc, pid2tcb, pipeVars, memVars>>

\* Inputs of the signal system calls.
KillSignums == {SIGUSR1, SIGKILL}
SigactionInputs ==
    {<<SIGUSR1, <<[handler |-> HandlerVa(SIGUSR1), mask |-> {}]>> >>,
     <<SIGUSR1, <<[handler |-> HandlerVa(SIGUSR1), mask |-> UserSigs]>> >>,
     <<SIGUSR2, <<[handler |-> HandlerVa(SIGUSR2), mask |-> {}]>> >>}
ProcMasks == {{}, {SIGUSR1}}

LiveTasks == Cardinality({s \in Slots : tcb[s].status # "Free"})

\* The user programs of the signal specifications: a process takes its role
\* from what fork returned.  The init process forks and sends signals to pids
\* (its own among them); its child is the one whose handlers run and end in
\* sigreturn.
Sender(p) == tcb[p].parent = 0
Receiver(p) == tcb[p].parent # 0

\* The signal system calls under the trap path as coded: trap_handler ends
\* in trap_return without handling signals.
NextKill ==
    \/ RunTasks
    \/ \E p \in Slots : TrapReturn(p)
    \/ \E p \in Slots : TimerInterrupt(p)
    \/ \E p \in Slots : LiveTasks < SigTasks /\ SysFork(p)
    \/ \E p \in Slots : \E pid \in Pids : \E signum \in KillSignums :
           Sender(p) /\ SysKill(p, pid, signum)
    \/ \E p \in Slots : \E mask \in ProcMasks : SysSigprocmask(p, mask)
    \/ \E p \in Slots : \E signum \in {SIGUSR1, SIGKILL} :
       \E action \in {<<>>, <<[handler |-> HandlerVa(SIGUSR1), mask |-> {}]>>} :
       \E old_action \in BOOLEAN :
           SysSigaction(p, signum, action, old_action)

SpecKill == Init /\ [][NextKill]_vars

\* Signals sent in the specification of the kernel-handled signals.
KsigSignums == KernelSigs

\* Masks a process sets in that specification.
KsigMasks == {{}, {SIGSTOP}}

\* The kernel-handled signals with handle_signals before every return to
\* user mode: the init process forks and sends signals to any pid, its own
\* included; its child blocks and unblocks SIGSTOP.
NextKsig ==
    \/ RunTasks
    \/ \E p \in Slots : TrapReturnSig(p)
    \/ \E p \in Slots : TimerInterrupt(p)
    \/ \E p \in Slots : LiveTasks < SigTasks /\ SysFork(p)
    \/ \E p \in Slots : \E pid \in Pids : \E signum \in KsigSignums :
           Sender(p) /\ SysKill(p, pid, signum)
    \/ \E p \in Slots : \E mask \in KsigMasks :
           Receiver(p) /\ SysSigprocmask(p, mask)

SpecKsig == Init /\ [][NextKsig]_vars

\* Arguments a user program passes to sigaction: valid and invalid signal
\* numbers, a null or a valid action pointer (old_action likewise).
SigactionSignums == {SIGUSR1, SIGUSR2, SIGKILL, SIGSTOP, MAX_SIG + 1, 0 - 1}
SigactionActions ==
    {<<>>,
     <<[handler |-> HandlerVa(SIGUSR1), mask |-> {}]>>,
     <<[handler |-> HandlerVa(SIGUSR2), mask |-> {SIGUSR1}]>>}

\* sigaction with arbitrary arguments, in a parent and its child, under the
\* trap path as coded.
NextSigaction ==
    \/ RunTasks
    \/ \E p \in Slots : TrapReturn(p)
    \/ \E p \in Slots : TimerInterrupt(p)
    \/ \E p \in Slots : LiveTasks < SigTasks /\ SysFork(p)
    \/ \E p \in Slots : \E signum \in SigactionSignums :
       \E action \in SigactionActions : \E old_action \in BOOLEAN :
           SysSigaction(p, signum, action, old_action)

SpecSigaction == Init /\ [][NextSigaction]_vars

\* Signal numbers a user program may pass to kill: a valid one, the first
\* one past MAX_SIG, a multiple of 32 and a negative one.
KillArgSignums == {SIGUSR1, MAX_SIG + 1, 2 * (MAX_SIG + 1), 0 - 1}

\* kill with arbitrary arguments, among processes that fork and exit, under
\* the trap path as coded.
NextKillArgs ==
    \/ RunTasks
    \/ \E p \in Slots : TrapReturn(p)
    \/ \E p \in Slots : TimerInterrupt(p)
    \/ \E p \in Slots : LiveTasks < SigTasks /\ SysFork(p)
    \/ \E p \in Slots : \E code \in ExitCodes : Receiver(p) /\ SysExit(p, code)
    \/ \E p \in Slots : \E pid \in Pids : \E signum \in KillArgSignums :
           SysKill(p, pid, signum)

SpecKillArgs == Init /\ [][NextKillArgs]_vars

\* A kill that keeps the target's outstanding and pending dispatches bounded.
KillBounded(pid) ==
    IF pid2tcb[pid] = 0 THEN TRUE
    ELSE Len(tcb[pid2tcb[pid]].saved) + Cardinality(tcb[pid2tcb[pid]].signals)
             < MaxDispatch

\* The signal system calls with handle_signals before every return to user
\* mode from trap_handler.
NextSig ==
    \/ RunTasks
    \/ \E p \in Slots : TrapReturnSig(p)
    \/ \E p \in Slots : TimerInterrupt(p)
    \/ \E p \in Slots : LiveTasks < SigTasks /\ SysFork(p)
    \/ \E p \in Slots : \E pid \in Pids : \E signum \in UserSigs :
           Sender(p) /\ KillBounded(pid) /\ SysKill(p, pid, signum)
    \/ \E p \in Slots : \E in \in SigactionInputs :
           Receiver(p) /\ SysSigaction(p, in[1], in[2], TRUE)
    \/ \E p \in Slots : Receiver(p) /\ SysSigreturn(p)

SpecSig == Init /\ [][NextSig]_vars

----------------------------------------------------------------------------
(* Pipes: make_pipe, Pipe::read, Pipe::write, and the descriptors of a pipe. *)

\* Number of tasks alive at once in the pipe specifications.
PipeTasks == 2
\* Number of bytes written to the pipe in a behaviour.
MaxBytes == 34
\* Buffer lengths user programs pass to write and read.
WriteSizes == {1, 33}
ReadSizes == {5, 36}

\* The descriptors alloc_fd gives the two ends of the first pipe of a
\* process whose table holds stdin, stdout and stderr.
PipeReadFd == 4
PipeWriteFd == 5

\* Byte i (from 1) of what the writing program writes to the pipe.
UserByte(i) == i

\* PipeRingBuffer::write_byte (fs/pipe.rs 71-78).
\* Mutant of WriteByte: the status stays Normal when the tail meets the head.
WriteByteNoFull(r, byte) ==
    [r EXCEPT !.arr[r.tail] = byte, !.tail = (r.tail + 1) % RING_BUFFER_SIZE,
              !.status = "Normal"]

WriteByte(r, byte) ==
    LET tail2 == (r.tail + 1) % RING_BUFFER_SIZE IN
    [r EXCEPT !.arr[r.tail] = byte, !.tail = tail2,
              !.status = IF tail2 = r.head THEN "Full" ELSE "Normal"]

\* PipeRingBuffer::read_byte (fs/pipe.rs 80-89): the ring afterwards; the
\* byte returned is r.arr[r.head].
ReadByte(r) ==
    LET head2 == (r.head + 1) % RING_BUFFER_SIZE IN
    [r EXCEPT !.head = head2,
              !.status = IF head2 = r.tail THEN "Empty" ELSE "Normal"]

\* Mutant of AvailableRead: the Empty status is not consulted.
AvailableReadNoStatus(r) ==
    IF r.tail > r.head THEN r.tail - r.head
    ELSE r.tail + RING_BUFFER_SIZE - r.head

\* PipeRingBuffer::available_read (fs/pipe.rs 91-99).
AvailableRead(r) ==
    IF r.status = "Empty" THEN 0
    ELSE IF r.tail > r.head THEN r.tail - r.head
    ELSE r.tail + RING_BUFFER_SIZE - r.head

\* PipeRingBuffer::available_write (fs/pipe.rs 100-106).
AvailableWrite(r) ==
    IF r.status = "Full" THEN 0 ELSE RING_BUFFER_SIZE - AvailableRead(r)

\* Arc::strong_count of the pipe's write end: one per descriptor-table slot
\* that holds it, over every control block that has not been dropped.
WriteEndCount(t) ==
    Cardinality({<<s, i>> \in Slots \X (1..(PipeWriteFd + 1)) :
                    /\ t[s].status # "Free"
                    /\ i <= Len(t[s].fd_table)
                    /\ t[s].fd_table[i] = "pipe_w"})

\* Mutant of AllWriteEndsClosed: the write end counts as closed at once.
WriteEndsClosedAlways(t) == TRUE

\* Mutant of AllWriteEndsClosed: the write end never counts as closed.
WriteEndsClosedNever(t) == FALSE

\* PipeRingBuffer::all_write_ends_closed (fs/pipe.rs 109-111): the weak
\* reference cannot be upgraded.
AllWriteEndsClosed(t) == WriteEndCount(t) = 0

\* A call of Pipe::read or Pipe::write in progress: the ring, the count
\* already_read / already_write, the bytes moved, the value returned (<<>>
\* while there is none) and whether the call has reached its yield.
CallState(r, done) ==
    [ring |-> r, done |-> done, bytes |-> <<>>, ret |-> <<>>, yield |-> FALSE]

\* One iteration of the for loop of Pipe::read (fs/pipe.rs 158-168): a byte
\* goes from the ring to the user buffer, or the buffer is exhausted.
PipeReadIter(st, want) ==
    IF st.done < want
    THEN [st EXCEPT !.bytes = Append(@, st.ring.arr[st.ring.head]),
                    !.ring = ReadByte(@),
                    !.done = @ + 1,
                    !.ret = IF st.done + 1 = want THEN <<want>> ELSE <<>>]
    ELSE [st EXCEPT !.ret = <<st.done>>]

\* Pipe::read, the for loop (fs/pipe.rs 157-169) with left iterations to go.
\* (The state after an iteration is bound as a value, s, to be computed once.)
RECURSIVE PipeReadFor(_, _, _)
PipeReadFor(st, left, want) ==
    IF left = 0 THEN st
    ELSE CHOOSE res \in {IF s.ret # <<>> THEN s ELSE PipeReadFor(s, left - 1, want) :
                            s \in {PipeReadIter(st, want)}} : TRUE

\* Pipe::read, the outer loop (fs/pipe.rs 141-171) up to its return or its
\* next suspend_current_and_run_next.
RECURSIVE PipeReadLoop(_, _, _)
PipeReadLoop(st, want, closed) ==
    LET loop_read == AvailableRead(st.ring) IN
    IF loop_read = 0
    THEN IF closed THEN [st EXCEPT !.ret = <<st.done>>]
         ELSE [st EXCEPT !.yield = TRUE]
    ELSE CHOOSE res \in {IF s.ret # <<>> THEN s ELSE PipeReadLoop(s, want, closed) :
                            s \in {PipeReadFor(st, loop_read, want)}} : TRUE

\* One iteration of the for loop of Pipe::write (fs/pipe.rs 186-195); base is
\* the number of bytes the program had written before this call.
PipeWriteIter(st, want, base) ==
    IF st.done < want
    THEN [st EXCEPT !.bytes = Append(@, UserByte(base + st.done + 1)),
                    !.ring = WriteByte(@, UserByte(base + st.done + 1)),
                    !.done = @ + 1,
                    !.ret = IF st.done + 1 = want THEN <<want>> ELSE <<>>]
    ELSE [st EXCEPT !.ret = <<st.done>>]

\* Pipe::write, the for loop (fs/pipe.rs 185-196) with left iterations to go.
RECURSIVE PipeWriteFor(_, _, _, _)
PipeWriteFor(st, left, want, base) ==
    IF left = 0 THEN st
    ELSE CHOOSE res \in {IF s.ret # <<>> THEN s
                         ELSE PipeWriteFor(s, left - 1, want, base) :
                            s \in {PipeWriteIter(st, want, base)}} : TRUE

\* Pipe::write, the outer loop (fs/pipe.rs 178-198) up to its return or its
\* next suspend_current_and_run_next.
RECURSIVE PipeWriteLoop(_, _, _)
PipeWriteLoop(st, want, base) ==
    LET loop_write == AvailableWrite(st.ring) IN
    IF loop_write = 0
    THEN [st EXCEPT !.yield = TRUE]
    ELSE CHOOSE res \in {IF s.ret # <<>> THEN s ELSE PipeWriteLoop(s, want, base) :
                            s \in {PipeWriteFor(st, loop_write, want, base)}} : TRUE

\* The descriptor table after alloc_fd and the store of file f
\* (task/task.rs 103-110).
AllocFd(fds, f) ==
    LET free == {i \in 1..Len(fds) : fds[i] = "none"} IN
    IF free = {} THEN Append(fds, f)
    ELSE [fds EXCEPT ![CHOOSE i \in free : \A j \in free : i <= j] = f]

\* The pipe system call: make_pipe (fs/pipe.rs 116-123) and a descriptor
\* for each end, the read end first.  The model has one pipe.
SysPipe(p) ==
    /\ InUser(p)
    /\ ~ring.write_end
    /\ ring' = [EmptyRing EXCEPT !.write_end = TRUE]
    /\ tcb' = LeaveSyscall(
                 [EnterSyscall(tcb, p) EXCEPT
                     ![p].fd_table = AllocFd(AllocFd(@, "pipe_r"), "pipe_w")],
                 p, 0)
    /\ last' = [op |-> "pipe", who |-> p, arg |-> 0, arg2 |-> 0, out |-> <<>>]
    /\ UNCHANGED <<ready, current, pidalloc, pid2tcb, halted, cacheVars, cellVars, timerVars, accepted,
                   delivered, memVars>>

\* The close system call on an open descriptor: the slot is emptied, which
\* drops its reference to the file.
SysClose(p, fd) ==
    /\ InUser(p)
    /\ fd <= Len(tcb[p].fd_table)
    /\ tcb[p].fd_table[fd] # "none"
    /\ tcb' = LeaveSyscall(
                 [EnterSyscall(tcb, p) EXCEPT ![p].fd_table[fd] = "none"],
                 p, 0)
    /\ last' = [op |-> "close", who |-> p, arg |-> fd, arg2 |-> 0, out |-> <<>>]
    /\ UNCHANGED <<ready, current, pidalloc, pid2tcb, halted, cacheVars, cellVars, timerVars, pipeVars, memVars>>

\* What a segment of Pipe::read leaves behind: the call has returned
\* (trap_handler writes the count to a0) or the task is suspended inside it.
PipeReadOutcome(p, t, st, want) ==
    /\ ring' = st.ring
    /\ delivered' = delivered \o st.bytes
    /\ IF st.yield
       THEN /\ tcb' = SuspendTcb(
                         [t EXCEPT ![p].kloc = [want |-> want, done |-> st.done]],
                         p, "in_read")
            /\ ready' = SuspendQueue(ready, p)
            /\ current' = 0
            /\ last' = NoLast
            /\ UNCHANGED timerVars
            /\ cells' = Track(<<Borrow(RingCell)>> \o PipeBlocks(p))
       ELSE /\ tcb' = LeaveSyscall([t EXCEPT ![p].kloc = NoLocals], p, st.ret[1])
            /\ last' = [op |-> "read", who |-> p, arg |-> want, arg2 |-> 0,
                        out |-> <<>>]
            /\ UNCHANGED timerVars
            /\ cells' = Track(<<Borrow(RingCell)>> \o PipeReturns(p))
            /\ UNCHANGED <<ready, current>>
    /\ UNCHANGED <<pidalloc, pid2tcb, halted, cacheVars, accepted, memVars>>

\* A read of n bytes from the pipe's read end: Pipe::read from its start
\* (fs/pipe.rs 134-172).
SysRead(p, fd, n) ==
    /\ InUser(p)
    /\ fd <= Len(tcb[p].fd_table)
    /\ tcb[p].fd_table[fd] = "pipe_r"
    /\ PipeReadOutcome(p, EnterSyscall(tcb, p),
                       PipeReadLoop(CallState(ring, 0), n, AllWriteEndsClosed(tcb)),
                       n)

\* Pipe::read continues after suspend_current_and_run_next (fs/pipe.rs 150-152).
PipeReadResume(p) ==
    /\ Running(p)
    /\ tcb[p].kpc = "in_read"
    /\ PipeReadOutcome(p, tcb,
                       PipeReadLoop(CallState(ring, tcb[p].kloc.done),
                                    tcb[p].kloc.want, AllWriteEndsClosed(tcb)),
                       tcb[p].kloc.want)

\* What a segment of Pipe::write leaves behind.
PipeWriteOutcome(p, t, st, want) ==
    /\ ring' = st.ring
    /\ accepted' = accepted \o st.bytes
    /\ IF st.yield
       THEN /\ tcb' = SuspendTcb(
                         [t EXCEPT ![p].kloc = [want |-> want, done |-> st.done]],
                         p, "in_write")
            /\ ready' = SuspendQueue(ready, p)
            /\ current' = 0
            /\ last' = NoLast
            /\ UNCHANGED timerVars
            /\ cells' = Track(<<Borrow(RingCell)>> \o PipeBlocks(p))
       ELSE /\ tcb' = LeaveSyscall([t EXCEPT ![p].kloc = NoLocals], p, st.ret[1])
            /\ last' = [op |-> "write", who |-> p, arg |-> want, arg2 |-> 0,
                        out |-> <<>>]
            /\ UNCHANGED timerVars
            /\ cells' = Track(<<Borrow(RingCell)>> \o PipeReturns(p))
            /\ UNCHANGED <<ready, current>>
    /\ UNCHANGED <<pidalloc, pid2tcb, halted, cacheVars, delivered, memVars>>

\* A write of k bytes to the pipe's write end: Pipe::write from its start
\* (fs/pipe.rs 173-199).
SysWrite(p, fd, k) ==
    /\ InUser(p)
    /\ fd <= Len(tcb[p].fd_table)
    /\ tcb[p].fd_table[fd] = "pipe_w"
    /\ PipeWriteOutcome(p, EnterSyscall(tcb, p),
                        PipeWriteLoop(CallState(ring, 0), k, Len(accepted)),
                        k)

\* Pipe::write continues after suspend_current_and_run_next (fs/pipe.rs 181-183).
PipeWriteResume(p) ==
    /\ Running(p)
    /\ tcb[p].kpc = "in_write"
    /\ PipeWriteOutcome(p, tcb,
                        PipeWriteLoop(CallState(ring, tcb[p].kloc.done),
                                      tcb[p].kloc.want,
                                      Len(accepted) - tcb[p].kloc.done),
                        tcb[p].kloc.want)

\* The user programs of the pipe specifications: the init process makes the
\* pipe, forks and writes; its child reads; either closes its copy of the
\* write end when it chooses to.
Writer(p) == tcb[p].parent = 0
Reader(p) == tcb[p].parent # 0

NextPipe ==
    \/ RunTasks
    \/ \E p \in Slots : TrapReturn(p)
    \/ \E p \in Slots : TimerInterrupt(p)
    \/ \E p \in Slots : Cardinality({s \in Slots : tcb[s].status # "Free"}) < PipeTasks
                        /\ ring.write_end /\ SysFork(p)
    \/ \E p \in Slots : SysPipe(p)
    \/ \E p \in Slots : SysClose(p, PipeWriteFd)
    \/ \E p \in Slots : \E k \in WriteSizes :
           Writer(p) /\ Len(accepted) + k <= MaxBytes /\ SysWrite(p, PipeWriteFd, k)
    \/ \E p \in Slots : \E n \in ReadSizes :
           Reader(p) /\ SysRead(p, PipeReadFd, n)
    \/ \E p \in Slots : PipeReadResume(p)
    \/ \E p \in Slots : PipeWriteResume(p)

SpecPipe == Init /\ [][NextPipe]_vars

\* Fair scheduling: the kernel's own steps are taken (the idle loop of
\* run_tasks, the return from a trap, the resumption of a task switched back
\* to inside Pipe::read or Pipe::write), and the timer interrupts a task that
\* stays in user mode.  Nothing obliges a user program to make a system call.
\* Only the current task acts, and inside the kernel only one step is
\* possible at a time.
KernelStep ==
    \/ \E p \in Slots : TrapReturn(p)
    \/ \E p \in Slots : PipeReadResume(p)
    \/ \E p \in Slots : PipeWriteResume(p)

\* The enabling conditions of KernelStep and of the timer interrupt, from
\* the guards of TrapReturn, PipeReadResume, PipeWriteResume and
\* TimerInterrupt.
KernelCanStep ==
    \E p \in Slots :
        /\ Running(p)
        /\ tcb[p].kpc \in {"new", "ret", "ret_yield", "in_read", "in_write"}
UserCanBeInterrupted == \E p \in Slots : InUser(p) /\ mtimecmp = "set"

\* Weak fairness of the idle loop, of KernelStep and of the timer interrupt,
\* the last two with their enabling conditions written out.
FairPipe ==
    /\ WF_vars(RunTasks)
    /\ ([]<>(~KernelCanStep) \/ []<><<KernelStep>>_vars)
    /\ ([]<>(~UserCanBeInterrupted)
            \/ []<><<\E p \in Slots : TimerInterrupt(p)>>_vars)

SpecPipeFair == Init /\ [][NextPipe]_vars /\ FairPipe

----------------------------------------------------------------------------
(* User memory: stores of a user program, fork's copy of the address space. *)

MemTasks == 2

\* A store instruction of the running user program to one of its pages: the
\* MMU translates vpn with the page table of the task's address space.  A
\* store outside the task's areas is the page fault of Fault.
UserStore(p, vpn, v) ==
    /\ InUser(p)
    /\ vpn \in UserVpns(mem.space[p])
    /\ "W" \in mem.space[p].flags[vpn]
    /\ mem' = [mem EXCEPT !.bytes[Translate(mem.space[p], vpn)] = v]
    /\ last' = [op |-> "store", who |-> p, arg |-> vpn, arg2 |-> v, out |-> <<>>]
    /\ UNCHANGED <<tcb, ready, current, pidalloc, pid2tcb, halted, cacheVars, cellVars, timerVars, pipeVars>>

NextMem ==
    \/ RunTasks
    \/ \E p \in Slots : TrapReturn(p)
    \/ \E p \in Slots : TimerInterrupt(p)
    \/ \E p \in Slots : LiveTasks < MemTasks /\ SysFork(p)
    \/ \E p \in Slots : \E code \in ExitCodes : Receiver(p) /\ SysExit(p, code)
    \/ \E p \in Slots : SysWaitpid(p, 0 - 1)
    \/ \E p \in Slots : \E vpn \in Vpns : \E v \in StoreValues :
            UserStore(p, vpn, v)

SpecMem == Init /\ [][NextMem]_vars

----------------------------------------------------------------------------
(* Operations on the areas of an address space, and the frames of the
   virtio queue. *)

VmTasks == 2

\* Operations on areas in one run.
MaxAreaOps == 3

\* The areas asked for: the guard page, and the user stack, which is mapped
\* already.
InsertRanges == {<<LoadEnd, UserStackBottom>>, <<UserStackBottom, UserStackTop>>}
InsertPerms == {{"R", "U"}}

\* The areas that are removed, shrunk or grown: the one on the guard page,
\* the user stack, the area above the user stack.
AreaStarts == {LoadEnd, UserStackBottom, UserStackTop}

\* The operation has ended with m = [fa, bytes, ms, panic] for the address
\* space of p.
AreaOutcome(p, op, arg, arg2, m) ==
    /\ mem.ops < MaxAreaOps
    /\ mem' = [mem EXCEPT !.fa = m.fa, !.bytes = m.bytes, !.space[p] = m.ms,
                          !.ops = @ + 1]
    /\ halted' = IF m.panic THEN "panic" ELSE halted
    /\ last' = [op |-> op, who |-> p, arg |-> arg, arg2 |-> arg2, out |-> <<>>]
    /\ UNCHANGED <<tcb, ready, current, pidalloc, pid2tcb, cacheVars, cellVars, timerVars, pipeVars>>

\* The address space of p as the operations take it.
SpaceOf(p) ==
    [fa |-> mem.fa, bytes |-> mem.bytes, ms |-> mem.space[p], panic |-> FALSE]

\* insert_framed_area on the address space of the current task.
DoInsertFramedArea(p, range, perm) ==
    /\ InUser(p)
    /\ AreaOutcome(p, "insert_framed_area", range, perm,
                   InsertFramedArea(SpaceOf(p), range[1], range[2], perm))

\* remove_area_with_start_vpn on the address space of the current task.
DoRemoveArea(p, start_vpn) ==
    /\ InUser(p)
    /\ AreaOutcome(p, "remove_area", start_vpn, 0,
                   RemoveAreaWithStartVpn(SpaceOf(p), start_vpn))

\* shrink_to on the address space of the current task, for an area that
\* starts at start_vpn and a new end inside the area.
DoShrinkTo(p, start_vpn, new_end) ==
    /\ InUser(p)
    /\ FindArea(mem.space[p], start_vpn) # 0
    /\ LET area == mem.space[p].areas[FindArea(mem.space[p], start_vpn)] IN
       /\ area.vpn_range[1] <= new_end
       /\ new_end < area.vpn_range[2]
    /\ AreaOutcome(p, "shrink_to", start_vpn, new_end,
                   ShrinkTo(SpaceOf(p), start_vpn, new_end))

\* append_to on the address space of the current task, for an area that
\* starts at start_vpn and a new end beyond the area.
DoAppendTo(p, start_vpn, new_end) ==
    /\ InUser(p)
    /\ FindArea(mem.space[p], start_vpn) # 0
    /\ LET area == mem.space[p].areas[FindArea(mem.space[p], start_vpn)] IN
       area.vpn_range[2] < new_end
    /\ AreaOutcome(p, "append_to", start_vpn, new_end,
                   AppendTo(SpaceOf(p), start_vpn, new_end))

\* dma_alloc's loop from page i on: a frame from the allocator, the
\* assertion that the frames are contiguous, the tracker pushed to
\* QUEUE_FRAMES.  d is [fa, bytes, queue_frames, base, panic].
RECURSIVE DmaAllocLoop(_, _, _)
DmaAllocLoop(d, i, pages) ==
    IF i >= pages \/ d.panic THEN d
    ELSE LET ppn == FrameAllocPpn(d.fa)
             ppn_base == IF i = 0 THEN ppn ELSE d.base
             got == [d EXCEPT !.fa = FrameAllocNext(@), !.bytes[ppn] = 0,
                              !.base = ppn_base]
         IN IF ppn # ppn_base + i
            THEN [got EXCEPT !.panic = TRUE]
            ELSE DmaAllocLoop([got EXCEPT !.queue_frames = Append(@, ppn)],
                              i + 1, pages)

\* VirtioHal::dma_alloc, called by the virtio driver for a queue.
DmaAlloc(pages) ==
    /\ halted = "no"
    /\ Len(mem.queue_frames) + pages <= MaxDmaCalls * MaxDmaPages
    /\ LET d == DmaAllocLoop([fa |-> mem.fa, bytes |-> mem.bytes,
                              queue_frames |-> mem.queue_frames,
                              base |-> 0, panic |-> FALSE], 0, pages)
       IN /\ mem' = [mem EXCEPT !.fa = d.fa, !.bytes = d.bytes,
                                !.queue_frames = d.queue_frames,
                                !.dma = IF d.panic THEN @
                                        ELSE @ \cup {<<d.base, pages>>}]
          /\ halted' = IF d.panic THEN "panic" ELSE halted
          /\ last' = [op |-> "dma_alloc", who |-> 0, arg |-> pages,
                      arg2 |-> 0, out |-> <<d.base>>]
    /\ UNCHANGED <<tcb, ready, current, pidalloc, pid2tcb, cacheVars, cellVars, timerVars, pipeVars>>

\* dma_dealloc's loop: frame_dealloc(ppn_base); ppn_base.step().
RECURSIVE DmaDeallocLoop(_, _, _)
DmaDeallocLoop(fa, ppn_base, pages) ==
    IF pages = 0 THEN fa
    ELSE DmaDeallocLoop(FrameDealloc(fa, ppn_base), ppn_base + 1, pages - 1)

\* VirtioHal::dma_dealloc, called by the virtio driver with an allocation
\* it holds.  QUEUE_FRAMES is not touched.
DmaDealloc(pa, pages) ==
    /\ halted = "no"
    /\ <<pa, pages>> \in mem.dma
    /\ mem' = [mem EXCEPT !.fa = DmaDeallocLoop(@, pa, pages),
                          !.dma = @ \ {<<pa, pages>>}]
    /\ last' = [op |-> "dma_dealloc", who |-> 0, arg |-> pa, arg2 |-> pages,
                out |-> <<>>]
    /\ UNCHANGED <<tcb, ready, current, pidalloc, pid2tcb, halted, cacheVars, cellVars, timerVars,
                   pipeVars>>

\* A task forks once and its child is not reaped, so that the operations
\* meet the address space of the parent and its clone.
NextVm ==
    \/ RunTasks
    \/ \E p \in Slots : TrapReturn(p)
    \/ \E p \in Slots : TimerInterrupt(p)
    \/ \E p \in Slots : LiveTasks < VmTasks /\ SysFork(p)
    \/ \E p \in Slots : \E code \in ExitCodes : Receiver(p) /\ SysExit(p, code)
    \/ \E p \in Slots : \E range \in InsertRanges : \E perm \in InsertPerms :
            DoInsertFramedArea(p, range, perm)
    \/ \E p \in Slots : \E start_vpn \in AreaStarts : DoRemoveArea(p, start_vpn)
    \/ \E p \in Slots : \E start_vpn \in AreaStarts : \E new_end \in LowVpns :
            DoShrinkTo(p, start_vpn, new_end)
    \/ \E p \in Slots : \E start_vpn \in AreaStarts : \E new_end \in LowVpns :
            DoAppendTo(p, start_vpn, new_end)

SpecVm == Init /\ [][NextVm]_vars

NextDma ==
    \/ RunTasks
    \/ \E p \in Slots : TrapReturn(p)
    \/ \E p \in Slots : TimerInterrupt(p)
    \/ \E p \in Slots : LiveTasks < VmTasks /\ SysFork(p)
    \/ \E p \in Slots : \E code \in ExitCodes : Receiver(p) /\ SysExit(p, code)
    \/ \E p \in Slots : SysWaitpid(p, 0 - 1)
    \/ \E pages \in 1..MaxDmaPages : DmaAlloc(pages)
    \/ \E pa \in Frames : \E pages \in 1..MaxDmaPages : DmaDealloc(pa, pages)

SpecDma == Init /\ [][NextDma]_vars

----------------------------------------------------------------------------
(* exec. *)

\* The executable files: the LOAD headers of each, in the order of the
\* file.  The second has two segments in ascending order of address, the
\* third the same two segments in descending order.
ElfImages ==
    <<InitImage,
      <<<<LoadStart, LoadEnd>>, <<LoadEnd + 1, LoadEnd + 2>>>>,
      <<<<LoadEnd + 1, LoadEnd + 2>>, <<LoadStart, LoadEnd>>>>>>

\* What sys_exec is called with: the index of a file, 0 for a path that
\* open_file does not find.
ExecNames == 0..Len(ElfImages)

\* The tasks of the specification of exec, and the calls of exec in one run.
ExecTasks == 2
MaxExecs == 2

\* TaskControlBlock::exec up to the substitution, with no arguments:
\* from_elf, then *argv[0] = 0 through translated_refmut at
\* user_sp - size_of::<usize>() in the new address space.
ExecSpace(m0, phs) ==
    LET m == FromElfImage(m0, phs)
        user_sp == (FromElfStack(FromElfMaxEnd(phs, 1, 0)) + USER_STACK_PAGES)
                        * PAGE_SIZE - 8
    IN IF m.panic \/ TranslatedRefmut(m.ms, user_sp).panic
       THEN [m EXCEPT !.panic = TRUE]
       ELSE [m EXCEPT !.bytes[VaFloor(TranslatedRefmut(m.ms, user_sp).out[1])] = 0]

\* Mutant of ExecTcb: the pending signals, the mask and the handlers are
\* reset as well.
ExecTcbResetSignals(t, p) ==
    [t EXCEPT ![p].cx = AppInitContext(0, KernelStackTop(t[p].pid)),
              ![p].signals = {}, ![p].signal_mask = {},
              ![p].signal_actions = DefaultActions]

\* TaskControlBlock::exec, the writes to the control block: the trap context
\* is app_init_context(entry_point, user_sp, ..., kernel_stack.get_top(), ...).
ExecTcb(t, p) ==
    [t EXCEPT ![p].cx = AppInitContext(0, KernelStackTop(t[p].pid))]

\* trap_handler + sys_exec + TaskControlBlock::exec (trap/mod.rs 79-87,
\* syscall/process.rs 67-95, task/task.rs 178-238).  The new address space
\* is built while the old one is still held; the assignment to
\* inner.memory_set drops the old one.  The trap context in the new frame is
\* app_init_context with x[10] = args.len(), and trap_handler writes the
\* result, argc, to x[10] of that context.  mem.ops counts the calls.
SysExec(p, name) ==
    /\ InUser(p)
    /\ last' = [op |-> "exec", who |-> p, arg |-> name, arg2 |-> 0, out |-> <<>>]
    /\ IF name = 0
       THEN /\ tcb' = LeaveSyscall(EnterSyscall(tcb, p), p, 0 - 1)
            /\ mem' = [mem EXCEPT !.ops = @ + 1]
            /\ UNCHANGED halted
       ELSE LET m == ExecSpace(SpaceOf(p), ElfImages[name]) IN
            IF m.panic
            THEN /\ halted' = "panic"
                 /\ mem' = [mem EXCEPT !.ops = @ + 1]
                 /\ UNCHANGED tcb
            ELSE /\ mem' = [mem EXCEPT
                               !.fa = DropAreas(m.fa, mem.space[p].areas, 1),
                               !.bytes = m.bytes,
                               !.space[p] = m.ms,
                               !.ops = @ + 1]
                 /\ tcb' = LeaveSyscall(ExecTcb(tcb, p), p, 0)
                 /\ UNCHANGED halted
    /\ UNCHANGED <<ready, current, pidalloc, pid2tcb, cacheVars, cellVars, timerVars,
                   pipeVars>>

\* Processes that fork, exit and replace their program; the init process
\* registers a handler and sends itself SIGUSR1, its child sets its mask.
NextExec ==
    \/ RunTasks
    \/ \E p \in Slots : TrapReturnSig(p)
    \/ \E p \in Slots : TimerInterrupt(p)
    \/ \E p \in Slots : LiveTasks < ExecTasks /\ SysFork(p)
    \/ \E p \in Slots : \E code \in ExitCodes : Receiver(p) /\ SysExit(p, code)
    \/ \E p \in Slots :
           /\ InUser(p) /\ Sender(p) /\ KillBounded(tcb[p].pid)
           /\ SysKill(p, tcb[p].pid, SIGUSR1)
    \/ \E p \in Slots : Receiver(p) /\ SysSigprocmask(p, {SIGUSR1})
    \/ \E p \in Slots :
           Sender(p) /\ SysSigaction(p, SIGUSR1,
                                     <<[handler |-> HandlerVa(SIGUSR1),
                                        mask |-> {}]>>, TRUE)
    \/ \E p \in Slots : \E name \in ExecNames :
           mem.ops < MaxExecs /\ SysExec(p, name)

SpecExec == Init /\ [][NextExec]_vars

----------------------------------------------------------------------------
(* Time slices. *)

TimerTasks == 3

\* The timer interrupt is taken; the kernel returns to user mode.
TimerFires == \E p \in Slots : TimerInterrupt(p)
UserReturns == \E p \in Slots : TrapReturn(p)

\* The enabling conditions of TimerFires and UserReturns, from the guards of
\* TimerInterrupt and TrapReturn.
TimerCanFire == \E p \in Slots : InUser(p) /\ mtimecmp = "set"
UserCanReturn ==
    \E p \in Slots : Running(p) /\ tcb[p].kpc \in {"new", "ret", "ret_yield"}

\* Processes that fork, yield and exit, or stay in user mode for good.
NextTimer ==
    \/ RunTasks
    \/ UserReturns
    \/ TimerFires
    \/ \E p \in Slots : LiveTasks < TimerTasks /\ SysFork(p)
    \/ \E p \in Slots : SysYield(p)
    \/ \E p \in Slots : \E code \in ExitCodes : Receiver(p) /\ SysExit(p, code)

\* The idle loop and the return to user mode go on when they can; a trigger
\* that is set while a process runs in user mode is reached.
FairTimer ==
    /\ WF_vars(RunTasks)
    /\ ([]<>(~UserCanReturn) \/ []<><<UserReturns>>_vars)
    /\ ([]<>TimerCanFire => []<><<TimerFires>>_vars)

SpecTimer == Init /\ [][NextTimer]_vars /\ FairTimer

\* User addresses handed to the kernel: in the page below the program, in
\* the program, in the guard page, in the user stack, above the heap, and in
\* a part of the address space for which no page table exists.
XlateOffsets == {0, 8, PAGE_SIZE - 1}
XlatePages == {0, LoadStart, LoadEnd, UserStackBottom, HeapTop, 512}
XlateVas == {vpn * PAGE_SIZE + off : vpn \in XlatePages, off \in XlateOffsets}
XlateLens == {1, PAGE_SIZE}

\* A system call of p hands the user pointer va to translated_refmut, as
\* sys_waitpid and sys_sigaction do.  last.out is the physical address of
\* the reference that the kernel gets.
TranslatedRefmutCall(p, va) ==
    /\ InUser(p)
    /\ LET r == TranslatedRefmut(mem.space[p], va) IN
       /\ halted' = IF r.panic THEN "panic" ELSE halted
       /\ last' = [op |-> "translated_refmut", who |-> p, arg |-> va,
                   arg2 |-> 0, out |-> r.out]
    /\ UNCHANGED <<tcb, ready, current, pidalloc, pid2tcb, memVars, cacheVars,
                   cellVars, timerVars, pipeVars>>

\* A system call of p hands the user buffer to translated_byte_buffer, as
\* sys_write and sys_read do.  last.out is the list of the slices.
TranslatedByteBufferCall(p, ptr, len) ==
    /\ InUser(p)
    /\ LET r == TranslatedByteBuffer(mem.space[p], ptr, len) IN
       /\ halted' = IF r.panic THEN "panic" ELSE halted
       /\ last' = [op |-> "translated_byte_buffer", who |-> p, arg |-> ptr,
                   arg2 |-> len, out |-> r.out]
    /\ UNCHANGED <<tcb, ready, current, pidalloc, pid2tcb, memVars, cacheVars,
                   cellVars, timerVars, pipeVars>>

\* The helpers meet the address spaces that the insertion and the removal
\* of areas leave.
NextXlate ==
    \/ RunTasks
    \/ \E p \in Slots : TrapReturn(p)
    \/ \E p \in Slots : \E range \in InsertRanges : \E perm \in InsertPerms :
            DoInsertFramedArea(p, range, perm)
    \/ \E p \in Slots : \E start_vpn \in AreaStarts : DoRemoveArea(p, start_vpn)
    \/ \E p \in Slots : \E va \in XlateVas : TranslatedRefmutCall(p, va)
    \/ \E p \in Slots : \E ptr \in XlateVas : \E len \in XlateLens :
            TranslatedByteBufferCall(p, ptr, len)

SpecXlate == Init /\ [][NextXlate]_vars

----------------------------------------------------------------------------
(* The user library's waitpid: loop { match sys_waitpid(pid, ..) { -2 =>
   yield_(), exit_pid => return exit_pid } } (user/src/lib.rs 139-150).
   INITPROC runs the program  loop { fork(); waitpid(pid of its first
   child) }.  What the program does next follows from a0, the result of
   its last system call, as the match does. *)

WaitTasks == 3

\* The pid that the parent waits for.
AwaitedPid(p) == tcb[tcb[p].children[1]].pid

\* The parent has no child: it forks.
ParentForks(p) ==
    /\ tcb[p].children = <<>>
    /\ LiveTasks < WaitTasks
    /\ SysFork(p)

\* waitpid's loop calls sys_waitpid, on entry and after each yield_.
WaitpidCalls(p) ==
    /\ tcb[p].children # <<>>
    /\ InUser(p)
    /\ tcb[p].cx.a0 # 0 - 2
    /\ SysWaitpid(p, AwaitedPid(p))

\* waitpid's loop: sys_waitpid has returned -2, so yield_().
WaitpidYields(p) ==
    /\ InUser(p)
    /\ tcb[p].cx.a0 = 0 - 2
    /\ SysYield(p)

\* The steps of the parent's program.
ParentStep ==
    \/ ParentForks(INITPROC)
    \/ WaitpidCalls(INITPROC)
    \/ WaitpidYields(INITPROC)

\* The idle loop and the return to user mode.
SchedulerStep ==
    \/ RunTasks
    \/ \E p \in Slots : TrapReturn(p)

\* The timer interrupts another task than the parent.
TimerStep == \E p \in Slots \ {INITPROC} : TimerInterrupt(p)

\* The other tasks yield, fork, exit, fault or stay in user mode; the timer
\* interrupts whoever runs.
NextWait ==
    \/ SchedulerStep
    \/ ParentStep
    \/ TimerStep
    \/ TimerInterrupt(INITPROC)
    \/ \E p \in Slots \ {INITPROC} : SysYield(p)
    \/ \E p \in Slots \ {INITPROC} : LiveTasks < WaitTasks /\ SysFork(p)
    \/ \E p \in Slots \ {INITPROC} : \E code \in ExitCodes : SysExit(p, code)
    \/ \E p \in Slots \ {INITPROC} : \E code \in {0 - 2, 0 - 3} : Fault(p, code)

\* The idle loop and trap_return run whenever they can, and the timer ends
\* the time slice of a task that stays in user mode.  The parent's
\* program advances (strong fairness of ParentStep, with its enabling
\* condition written out): a time slice is longer than the few instructions
\* between two of its system calls, so the timer does not pre-empt it
\* before every one of them.  Nothing else is assumed of the other tasks.
\* ParentCanStep is the enabling condition of ParentStep, from the guards of
\* its three steps.
ParentCanStep ==
    /\ InUser(INITPROC)
    /\ \/ /\ tcb[INITPROC].children = <<>>
          /\ LiveTasks < WaitTasks
          /\ \E c \in Slots : tcb[c].status = "Free"
       \/ /\ tcb[INITPROC].children # <<>>
          /\ tcb[INITPROC].cx.a0 # 0 - 2
       \/ tcb[INITPROC].cx.a0 = 0 - 2

\* The enabling conditions of the return to user mode and of TimerStep, from
\* the guards of TrapReturn and TimerInterrupt.
OtherCanBeInterrupted ==
    \E p \in Slots \ {INITPROC} : InUser(p) /\ mtimecmp = "set"

\* Weak fairness of the idle loop, of the return to user mode and of
\* TimerStep, the last two with their enabling conditions written out, and
\* strong fairness of ParentStep.
FairWait ==
    /\ WF_vars(RunTasks)
    /\ ([]<>(~UserCanReturn) \/ []<><<UserReturns>>_vars)
    /\ ([]<>(~OtherCanBeInterrupted) \/ []<><<TimerStep>>_vars)
    /\ ([]<>ParentCanStep => []<><<ParentStep>>_vars)

SpecWait == Init /\ [][NextWait]_vars /\ FairWait

----------------------------------------------------------------------------
(* Console input and output: sys_write and sys_read of syscall/fs.rs. *)

ConsoleTasks == 2
FD_STDIN == 0
FD_STDOUT == 1

\* Descriptors and lengths a user program passes to read and write: the
\* standard ones, and one that no process has open.
ConsoleFds == {FD_STDIN, FD_STDOUT, 2, 5}
ConsoleLens == {1, 2}

\* What console_getchar returns: 0 while no key has been pressed.
ConsoleChars == {0, 65}

\* A kernel panic inside a system call of p: trap_handler has advanced sepc,
\* the panic handler stops the machine and nothing returns to the caller.
SyscallPanic(p, op, fd, len) ==
    /\ tcb' = EnterSyscall(tcb, p)
    /\ halted' = "panic"
    /\ UNCHANGED <<cacheVars, cellVars, timerVars>>
    /\ last' = [op |-> op, who |-> p, arg |-> fd, arg2 |-> len, out |-> <<>>]
    /\ UNCHANGED <<ready, current, pidalloc, pid2tcb, pipeVars, memVars>>

\* sys_write (syscall/fs.rs 9-26): FD_STDOUT prints the buffer and returns
\* len; every other descriptor panics.
SysWriteStdio(p, fd, len) ==
    /\ InUser(p)
    /\ IF fd = FD_STDOUT
       THEN /\ tcb' = LeaveSyscall(EnterSyscall(tcb, p), p, len)
            /\ last' = [op |-> "sys_write", who |-> p, arg |-> fd,
                        arg2 |-> len, out |-> <<>>]
            /\ UNCHANGED <<ready, current, pidalloc, pid2tcb, halted, cacheVars, cellVars, timerVars,
                           pipeVars, memVars>>
       ELSE SyscallPanic(p, "sys_write", fd, len)

\* The loop of sys_read for FD_STDIN (syscall/fs.rs 33-43, 45-50): with no
\* input the task is suspended inside the call and asks again when it runs
\* next; a character is written to the user's buffer (the page buf of the
\* caller's address space) and 1 is returned.
SysReadStdioLoop(p, t, buf, c) ==
    IF c = 0
    THEN /\ tcb' = SuspendTcb([t EXCEPT ![p].kloc = [want |-> buf, done |-> 0]],
                              p, "in_getchar")
         /\ ready' = SuspendQueue(ready, p)
         /\ current' = 0
         /\ last' = NoLast
         /\ UNCHANGED timerVars
         /\ cells' = Track(SuspendCurrentAndRunNext(p))
         /\ UNCHANGED <<pidalloc, pid2tcb, halted, cacheVars, pipeVars, memVars>>
    ELSE /\ tcb' = LeaveSyscall([t EXCEPT ![p].kloc = NoLocals], p, 1)
         /\ mem' = [mem EXCEPT !.bytes[Translate(mem.space[p], buf)] = c]
         /\ last' = [op |-> "sys_read", who |-> p, arg |-> FD_STDIN,
                     arg2 |-> 1, out |-> <<c>>]
         /\ UNCHANGED timerVars
         /\ cells' = Track(CurrentUserToken(p) \o CurrentTrapCx(p))
         /\ UNCHANGED <<ready, current, pidalloc, pid2tcb, halted, cacheVars, pipeVars>>

\* sys_read (syscall/fs.rs 28-56): FD_STDIN with len = 1 (the assert_eq
\* panics on any other len) reads one character; every other descriptor
\* panics.
SysReadStdio(p, fd, buf, len, c) ==
    /\ InUser(p)
    /\ buf \in UserVpns(mem.space[p])
    /\ IF fd = FD_STDIN /\ len = 1
       THEN SysReadStdioLoop(p, EnterSyscall(tcb, p), buf, c)
       ELSE SyscallPanic(p, "sys_read", fd, len)

\* sys_read continues after suspend_current_and_run_next (syscall/fs.rs 39-40).
SysReadStdioResume(p, c) ==
    /\ Running(p)
    /\ tcb[p].kpc = "in_getchar"
    /\ SysReadStdioLoop(p, tcb, tcb[p].kloc.want, c)

NextConsole ==
    \/ RunTasks
    \/ \E p \in Slots : TrapReturn(p)
    \/ \E p \in Slots : TimerInterrupt(p)
    \/ \E p \in Slots : LiveTasks < ConsoleTasks /\ SysFork(p)
    \/ \E p \in Slots : \E fd \in ConsoleFds : \E len \in ConsoleLens :
            SysWriteStdio(p, fd, len)
    \/ \E p \in Slots : \E fd \in ConsoleFds : \E len \in ConsoleLens :
       \E c \in ConsoleChars : SysReadStdio(p, fd, UserStackBottom, len, c)
    \/ \E p \in Slots : \E c \in ConsoleChars : SysReadStdioResume(p, c)

SpecConsole == Init /\ [][NextConsole]_vars

----------------------------------------------------------------------------
(* Every way into __switch: the idle loop, yield, the timer, a pipe with
   nothing to read or no room to write, stdin without input, a task frozen
   by SIGSTOP, and exit. *)

\* Number of tasks alive at once.
BorrowTasks == 2

NextBorrow ==
    \/ RunTasks
    \/ \E p \in Slots : TrapReturnSig(p)
    \/ \E p \in Slots : TimerInterrupt(p)
    \/ \E p \in Slots : SysYield(p)
    \/ \E p \in Slots : LiveTasks < BorrowTasks /\ ring.write_end /\ SysFork(p)
    \/ \E p \in Slots : SysPipe(p)
    \/ \E p \in Slots : Writer(p) /\ Len(accepted) + RING_BUFFER_SIZE + 1 <= MaxBytes
                        /\ SysWrite(p, PipeWriteFd, RING_BUFFER_SIZE + 1)
    \/ \E p \in Slots : Reader(p) /\ SysRead(p, PipeReadFd, RING_BUFFER_SIZE + 1)
    \/ \E p \in Slots : PipeReadResume(p)
    \/ \E p \in Slots : PipeWriteResume(p)
    \/ \E p \in Slots : \E c \in ConsoleChars :
           Reader(p) /\ SysReadStdio(p, FD_STDIN, UserStackBottom, 1, c)
    \/ \E p \in Slots : \E c \in ConsoleChars : SysReadStdioResume(p, c)
    \/ \E p \in Slots : \E pid \in Pids : \E signum \in {SIGSTOP, SIGCONT} :
           Writer(p) /\ KillBounded(pid) /\ SysKill(p, pid, signum)
    \/ \E p \in Slots \ {INITPROC} : SysExit(p, 0)
    \/ \E p \in Slots \ {INITPROC} : Fault(p, 0 - 2)

SpecBorrow == Init /\ [][NextBorrow]_vars

----------------------------------------------------------------------------
(* The block cache of easy-fs: operations of the manager and its callers. *)

\* Handles a caller keeps outside a chain of nested scopes: all but the
\* innermost are handles of the blocks of PinBlocks.
MaxHeld == 2
PinBlocks == {1}
\* Blocks callers modify, and the contents they write.  Callers come back
\* to these and to the pinned blocks while they are cached; every other
\* block is accessed once each time it is loaded.
HotBlocks == {0}
WriteValues == {1, 2}

CacheLast(op, block_id, arg2, out) ==
    [op |-> op, who |-> 0, arg |-> block_id, arg2 |-> arg2, out |-> out]

\* BlockCacheManager::get_block_cache (block_cache.rs 119-154).  A hit clones
\* the entry's Arc.  A miss on a full queue drains the first entry no caller
\* holds, which drops its BlockCache (Drop calls sync, 92-96), or panics when
\* there is none; then the block is loaded and pushed at the back.  The
\* caller keeps the handle it is given.
GetBlockCache(block_id) ==
    /\ halted = "no"
    /\ UNCHANGED bmlog
    /\ LET hit == FindBlock(bcm.queue, block_id)
           full == Len(bcm.queue) = BLOCK_CACHE_SIZE
           idx == FindVictim(bcm.queue)
       IN IF hit # 0
          THEN /\ bcm' = [bcm EXCEPT !.queue[hit].strong = @ + 1]
               /\ held' = Append(held, block_id)
               /\ wrote' = <<>>
               /\ last' = CacheLast("get_block_cache", block_id, 0 - 1, <<"hit">>)
               /\ UNCHANGED <<disk, halted>>
          ELSE IF full /\ idx = 0
          THEN /\ halted' = "panic"
               /\ wrote' = <<>>
               /\ last' = CacheLast("get_block_cache", block_id, 0 - 1, <<"panic">>)
               /\ UNCHANGED <<bcm, disk, held>>
          ELSE LET q1 == IF full THEN Drain(bcm.queue, idx) ELSE bcm.queue
                   d1 == IF full THEN SyncDisk(bcm.queue[idx], disk) ELSE disk
               IN /\ disk' = d1
                  /\ bcm' = [bcm EXCEPT !.queue = Append(q1, BlockCacheNew(block_id, d1))]
                  /\ held' = Append(held, block_id)
                  /\ wrote' = IF full THEN SyncWrote(bcm.queue[idx]) ELSE <<>>
                  /\ last' = CacheLast("get_block_cache", block_id,
                                       IF full THEN bcm.queue[idx].block_id ELSE 0 - 1,
                                       <<"miss">>)
                  /\ UNCHANGED halted
    /\ UNCHANGED <<tcb, ready, current, pidalloc, pid2tcb, written,
                   pipeVars, memVars, cellVars, timerVars>>

\* The caller's innermost handle goes out of scope: the Arc clone is dropped,
\* the queue's reference keeps the BlockCache alive.
DropHandle ==
    /\ halted = "no"
    /\ UNCHANGED bmlog
    /\ held # <<>>
    /\ LET block_id == held[Len(held)]
           i == FindBlock(bcm.queue, block_id)
       IN /\ bcm' = [bcm EXCEPT !.queue[i].strong = @ - 1]
          /\ last' = CacheLast("drop", block_id, 0, <<>>)
    /\ held' = SubSeq(held, 1, Len(held) - 1)
    /\ wrote' = <<>>
    /\ UNCHANGED <<tcb, ready, current, pidalloc, pid2tcb, halted, disk, written,
                   pipeVars, memVars, cellVars, timerVars>>

\* handle.lock().modify(0, |data| *data = v): get_mut marks the cache
\* modified (block_cache.rs 55-65, 76-78) and the closure stores v.
Modify(v) ==
    /\ halted = "no"
    /\ UNCHANGED bmlog
    /\ held # <<>>
    /\ LET block_id == held[Len(held)]
           i == FindBlock(bcm.queue, block_id)
       IN /\ bcm' = [bcm EXCEPT !.queue[i].cache = v, !.queue[i].modified = TRUE]
          /\ written' = [written EXCEPT ![block_id] = v]
          /\ last' = CacheLast("modify", block_id, v, <<>>)
    /\ wrote' = <<>>
    /\ UNCHANGED <<tcb, ready, current, pidalloc, pid2tcb, halted, disk, held,
                   pipeVars, memVars, cellVars, timerVars>>

\* handle.lock().read(0, |data| *data) (block_cache.rs 42-53, 72-74).
Read ==
    /\ halted = "no"
    /\ UNCHANGED bmlog
    /\ held # <<>>
    /\ LET block_id == held[Len(held)]
           i == FindBlock(bcm.queue, block_id)
       IN last' = CacheLast("read", block_id, 0, <<bcm.queue[i].cache>>)
    /\ wrote' = <<>>
    /\ UNCHANGED <<tcb, ready, current, pidalloc, pid2tcb, halted, bcm, disk, held,
                   written, pipeVars, memVars, cellVars, timerVars>>

\* The loop of block_cache_sync_all over the first n entries of the queue.
RECURSIVE SyncAllLoop(_, _, _)
SyncAllLoop(queue, d, n) ==
    IF n = 0
    THEN [queue |-> queue, disk |-> d, wrote |-> <<>>]
    ELSE LET r == SyncAllLoop(queue, d, n - 1)
         IN [queue |-> [r.queue EXCEPT ![n] = SyncEntry(queue[n])],
             disk |-> SyncDisk(queue[n], r.disk),
             wrote |-> r.wrote \o SyncWrote(queue[n])]

\* block_cache_sync_all (block_cache.rs 174-180).
BlockCacheSyncAll ==
    /\ halted = "no"
    /\ UNCHANGED bmlog
    /\ LET r == SyncAllLoop(bcm.queue, disk, Len(bcm.queue))
       IN /\ bcm' = [bcm EXCEPT !.queue = r.queue]
          /\ disk' = r.disk
          /\ wrote' = r.wrote
    /\ last' = CacheLast("sync_all", 0, 0, <<>>)
    /\ UNCHANGED <<tcb, ready, current, pidalloc, pid2tcb, halted, held, written,
                   pipeVars, memVars, cellVars, timerVars>>

\* The callers of the specification.  Blocks are loaded in ascending order
\* of their ids (the next block loaded is the least one not cached); a
\* caller keeps up to MaxHeld handles, the outer ones of pinned blocks, or
\* it walks a chain of nested scopes that holds one handle for every cached
\* block.
CachedBlocks == {bcm.queue[i].block_id : i \in 1..Len(bcm.queue)}
NextLoad == CHOOSE b \in Blocks \ CachedBlocks :
                \A c \in Blocks \ CachedBlocks : b <= c
Chain == held = [i \in 1..Len(bcm.queue) |-> bcm.queue[i].block_id]

NextCache ==
    \/ \E b \in Blocks :
          /\ \/ /\ Len(held) < MaxHeld
                /\ \A i \in 1..Len(held) : held[i] \in PinBlocks
                /\ b \in CachedBlocks \cap (HotBlocks \cup PinBlocks) \/ b = NextLoad
             \/ Chain /\ b = NextLoad
          /\ GetBlockCache(b)
    \/ DropHandle
    \/ \E v \in WriteValues : held # <<>> /\ held[Len(held)] \in HotBlocks /\ Modify(v)
    \/ Read
    \/ BlockCacheSyncAll

SpecCache == Init /\ [][NextCache]_vars

----------------------------------------------------------------------------
(* The bitmap of easy-fs (easy-fs/src/bitmap.rs) on top of the block cache. *)

\* Blocks of the bitmap, and the calls of one run of the specification.
BitmapBlocks == 2
MaxBitmapOps == 4

\* type BitmapBlock = [u64; 64]: a block is 64 words of 64 bits; a word is
\* the set of the positions of its 1 bits.
WordBits == 0..63
WordIdx == 0..63
U64_MAX == WordBits
BLOCK_BITS == 64 * 64

\* Bitmap::new(1, BitmapBlocks).
TheBitmap == [start_block_id |-> 1, blocks |-> BitmapBlocks]

\* Bitmap::maximum (bitmap.rs 77-79).
Maximum(bm) == bm.blocks * BLOCK_BITS

\* decomposition (bitmap.rs 19-23).
Decomposition(bit) ==
    [block_pos |-> bit \div BLOCK_BITS,
     bits64_pos |-> (bit % BLOCK_BITS) \div 64,
     inner_pos |-> (bit % BLOCK_BITS) % 64]

\* Mutant of TrailingOnes: one less than the number of trailing 1 bits.
TrailingOnesLess(w) ==
    CHOOSE n \in 0..63 :
        \/ n = 0 /\ 0 \notin w
        \/ (\A i \in 0..n : i \in w) /\ (n = 63 \/ n + 1 \notin w)

\* Mutant of TrailingOnes: the highest 0 bit of the word.
TrailingOnesHigh(w) == CHOOSE n \in WordBits \ w : \A k \in WordBits \ w : k <= n

\* u64::trailing_ones: the number of 1 bits below the lowest 0 bit.
TrailingOnes(w) ==
    CHOOSE n \in 0..64 : (\A i \in 0..(n - 1) : i \in w) /\ (n = 64 \/ n \notin w)

\* get_block_cache(block_id, device) whose handle is dropped at the end of
\* the statement (block_cache.rs 119-154), as a function of the manager's
\* queue and the device: the queue with the block's entry in it, the
\* device after the write-back of an evicted entry, and whether the call
\* panicked.
CacheTouch(c, block_id) ==
    LET hit == FindBlock(c.queue, block_id)
        full == Len(c.queue) = BLOCK_CACHE_SIZE
        idx == FindVictim(c.queue)
    IN IF hit # 0 THEN c
       ELSE IF full /\ idx = 0 THEN [c EXCEPT !.panic = TRUE]
       ELSE LET q1 == IF full THEN Drain(c.queue, idx) ELSE c.queue
                d1 == IF full THEN SyncDisk(c.queue[idx], c.disk) ELSE c.disk
            IN [c EXCEPT !.queue = Append(q1, [BlockCacheNew(block_id, d1)
                                                 EXCEPT !.strong = 1]),
                         !.disk = d1]

\* .lock().modify(0, f) on the cached block: get_mut marks it modified
\* (block_cache.rs 55-65, 76-78) and the closure leaves the content blk.
CacheStore(c, block_id, blk) ==
    LET i == FindBlock(c.queue, block_id)
    IN [c EXCEPT !.queue[i].cache = blk, !.queue[i].modified = TRUE]

\* The closure of Bitmap::alloc on one block (bitmap.rs 46-57): the first
\* word that is not u64::MAX gets its lowest 0 bit set.
AllocInBlock(blk) ==
    IF \E w \in WordIdx : blk[w] # U64_MAX
    THEN LET bits64_pos == CHOOSE w \in WordIdx :
                              /\ blk[w] # U64_MAX
                              /\ \A v \in 0..(w - 1) : blk[v] = U64_MAX
             inner_pos == TrailingOnes(blk[bits64_pos])
         IN [blk |-> [blk EXCEPT ![bits64_pos] = @ \cup {inner_pos}],
             pos |-> <<bits64_pos * 64 + inner_pos>>]
    ELSE [blk |-> blk, pos |-> <<>>]

\* Bitmap::alloc, the loop from block_id on (bitmap.rs 36-64): Some(bit) is
\* <<bit>>, None is <<>>.
RECURSIVE BitmapAllocLoop(_, _, _)
BitmapAllocLoop(bm, c, block_id) ==
    IF block_id >= bm.blocks
    THEN [c |-> c, pos |-> <<>>]
    ELSE LET c1 == CacheTouch(c, block_id + bm.start_block_id)
         IN IF c1.panic
            THEN [c |-> c1, pos |-> <<>>]
            ELSE LET e == c1.queue[FindBlock(c1.queue, block_id + bm.start_block_id)]
                     r == AllocInBlock(e.cache)
                     c2 == CacheStore(c1, block_id + bm.start_block_id, r.blk)
                 IN IF r.pos # <<>>
                    THEN [c |-> c2, pos |-> <<block_id * BLOCK_BITS + r.pos[1]>>]
                    ELSE BitmapAllocLoop(bm, c2, block_id + 1)

\* What a call on the bitmap leaves in the manager, the device and the
\* history.
BitmapOutcome(c, op, arg, out) ==
    /\ bcm' = [bcm EXCEPT !.queue = c.queue]
    /\ disk' = c.disk
    /\ halted' = IF c.panic THEN "panic" ELSE "no"
    /\ bmlog' = Append(bmlog, [op |-> op, bit |-> arg, out |-> out,
                                panic |-> c.panic])
    /\ last' = [op |-> op, who |-> 0, arg |-> arg, arg2 |-> 0, out |-> out]
    /\ wrote' = <<>>
    /\ UNCHANGED <<tcb, ready, current, pidalloc, pid2tcb, held, written,
                   pipeVars, memVars, cellVars, timerVars>>

\* Bitmap::alloc (bitmap.rs 34-65).
BitmapAlloc(bm) ==
    /\ halted = "no"
    /\ LET r == BitmapAllocLoop(bm, [queue |-> bcm.queue, disk |-> disk,
                                     panic |-> FALSE], 0)
       IN BitmapOutcome(r.c, "alloc", 0, r.pos)

\* Bitmap::dealloc (bitmap.rs 67-75): the assert panics when the bit is 0,
\* with the block marked modified by get_mut.
BitmapDealloc(bm, bit) ==
    /\ halted = "no"
    /\ LET d == Decomposition(bit)
           id == d.block_pos + bm.start_block_id
           c1 == CacheTouch([queue |-> bcm.queue, disk |-> disk, panic |-> FALSE], id)
           blk == c1.queue[FindBlock(c1.queue, id)].cache
       IN IF c1.panic
          THEN BitmapOutcome(c1, "dealloc", bit, <<>>)
          ELSE IF d.inner_pos \notin blk[d.bits64_pos]
          THEN BitmapOutcome([CacheStore(c1, id, blk) EXCEPT !.panic = TRUE],
                             "dealloc", bit, <<>>)
          ELSE BitmapOutcome(
                  CacheStore(c1, id, [blk EXCEPT ![d.bits64_pos] = @ \ {d.inner_pos}]),
                  "dealloc", bit, <<>>)

\* A bitmap block whose first n bits are 1 (n may exceed the block).
FilledBlock(n) == [w \in WordIdx |-> {i \in WordBits : w * 64 + i < n}]

\* The device after n allocs on the fresh bitmap: every other block is as
\* in DiskInit.
DiskFilled(bm, n) ==
    [b \in Blocks |->
        IF b >= bm.start_block_id /\ b < bm.start_block_id + bm.blocks
        THEN FilledBlock(n - (b - bm.start_block_id) * BLOCK_BITS)
        ELSE 0]

\* Numbers of allocs already made when a run starts, and the bits a run
\* deallocates.
BitmapFills == {0, BLOCK_BITS - 1, BitmapBlocks * BLOCK_BITS - 1}
DeallocBits == {0, 64, BLOCK_BITS - 1, BLOCK_BITS}

InitBitmap ==
    /\ tcb = InitTcb
    /\ ready = <<INITPROC>>
    /\ current = 0
    /\ pidalloc = [current |-> 1, recycled |-> <<>>]
    /\ pid2tcb = [p \in Pids |-> IF p = 0 THEN INITPROC ELSE 0]
    /\ last = NoLast
    /\ halted = "no"
    /\ ring = EmptyRing
    /\ accepted = <<>>
    /\ delivered = <<>>
    /\ mem = InitMem
    /\ bcm = BlockCacheManagerNew
    /\ \E n \in BitmapFills : disk = DiskFilled(TheBitmap, n)
    /\ held = <<>>
    /\ written = DiskInit
    /\ wrote = <<>>
    /\ bmlog = <<>>
    /\ cells = NoCells
    /\ mtimecmp = "set"

NextBitmap ==
    \/ Len(bmlog) < MaxBitmapOps /\ BitmapAlloc(TheBitmap)
    \/ \E bit \in DeallocBits : Len(bmlog) < MaxBitmapOps /\ BitmapDealloc(TheBitmap, bit)
    \/ Len(bmlog) = MaxBitmapOps /\ BlockCacheSyncAll

SpecBitmap == InitBitmap /\ [][NextBitmap]_vars

----------------------------------------------------------------------------
(* Claims about the process core. *)

\* A step in which the running task is suspended (yield or timer).
SuspendStep ==
    /\ current # 0
    /\ current' = 0
    /\ halted' = "no"
    /\ tcb'[current].status = "Ready"

\* C4: a task that yields is appended to the back of the ready queue; the
\* idle loop always runs the task at the front and removes exactly it; the
\* queue otherwise only grows at its back, so tasks run in the order they
\* were enqueued, and a task that yields with nothing else ready is the
\* front of the queue and resumes itself.
C4_YieldFifo ==
    [][/\ SuspendStep => ready' = Append(ready, current)
       /\ (current = 0 /\ current' # 0) =>
              /\ ready # <<>>
              /\ current' = Head(ready)
              /\ ready' = Tail(ready)
              /\ tcb'[current'].status = "Running"
       /\ \/ ready' = ready
          \/ ready # <<>> /\ ready' = Tail(ready)
          \/ \E s \in Slots : ready' = Append(ready, s)]_vars

\* C4 witness: a task that yielded is running again, after the two tasks
\* that were queued before it got their turn and were queued behind it.
C4_Witness ==
    /\ current # 0
    /\ tcb[current].kpc = "ret_yield"
    /\ Len(ready) = 2

\* The children of p that sys_waitpid's pid argument designates.
MatchingChildren(p, pidarg) ==
    {c \in SeqToSet(tcb[p].children) : pidarg = 0 - 1 \/ tcb[c].pid = pidarg}

\* A step that serves a waitpid system call to its end.
WaitpidStep == last.op = "none" /\ last'.op = "waitpid"

\* C5: sys_waitpid(pid, ptr) returns -1 iff the caller has no child matching
\* pid, -2 iff it has matching children and none is a zombie, and otherwise
\* the pid of a matching zombie child whose exit code it stores through ptr.
C5_WaitpidResult ==
    [][WaitpidStep =>
        LET p == last'.who
            m == MatchingChildren(p, last'.arg)
            r == tcb'[p].cx.a0
        IN /\ (r = 0 - 1) <=> (m = {})
           /\ (r = 0 - 2) <=> (m # {} /\ \A c \in m : tcb[c].status # "Zombie")
           /\ r \notin {0 - 1, 0 - 2} =>
                \E c \in m : /\ tcb[c].status = "Zombie"
                             /\ tcb[c].pid = r
                             /\ last'.out = <<tcb[c].exit_code>>]_vars

\* C5 witness: a waitpid for one particular pid has reaped that child and
\* stored its exit code 42, while the caller still has another child.
C5_Witness ==
    /\ last.op = "waitpid"
    /\ last.arg # 0 - 1
    /\ last.out = <<42>>
    /\ tcb[last.who].cx.a0 = last.arg
    /\ tcb[last.who].children # <<>>

\* A step that serves a fork system call.
ForkStep == last.op = "none" /\ last'.op = "fork"

\* C6: a fork by P creates exactly one new process C, Ready and appended to
\* the ready queue; P's a0 holds C's pid, which differs from P's; C's trap
\* context has a0 = 0 and the user pc of P after the ecall, and stays so
\* until C first returns to user mode.
C6_Fork ==
    [][/\ ForkStep =>
            LET p == last'.who
                new == {c \in Slots : tcb[c].status = "Free" /\ tcb'[c].status # "Free"}
            IN /\ Cardinality(new) = 1
               /\ \A c \in new :
                    /\ tcb'[c].status = "Ready"
                    /\ ready' = Append(ready, c)
                    /\ tcb'[p].cx.a0 = tcb'[c].pid
                    /\ tcb'[c].pid # tcb[p].pid
                    /\ \A s \in Slots \ {c} :
                           tcb[s].status # "Free" => tcb[s].pid # tcb'[c].pid
                    /\ tcb'[c].kpc = "new"
                    /\ tcb'[c].cx.a0 = 0
                    /\ tcb'[c].cx.sepc = NextPc(tcb[p].cx.sepc)
                    /\ tcb'[c].cx.sepc = tcb'[p].cx.sepc
               /\ \A s \in Slots \ new : (tcb[s].status = "Free") <=> (tcb'[s].status = "Free")
       /\ \A c \in Slots :
            (tcb[c].kpc = "new" /\ tcb'[c].status # "Free") =>
                /\ tcb'[c].cx = tcb[c].cx
                /\ tcb'[c].kpc \in {"new", "user"}]_vars

\* C6 witness: a forked child has returned to user mode for the first time
\* at a pc other than the entry point, holding 0 in a0, while its parent
\* holds the child's pid in a0.
C6_Witness ==
    \E c \in Slots :
        /\ tcb[c].status = "Running"
        /\ tcb[c].kpc = "user"
        /\ tcb[c].parent # 0
        /\ tcb[c].cx.a0 = 0
        /\ tcb[c].cx.sepc = 4
        /\ tcb[tcb[c].parent].status # "Free"
        /\ tcb[tcb[c].parent].cx.a0 = tcb[c].pid
        /\ tcb[c].pid = 2

----------------------------------------------------------------------------
(* Claims about user memory. *)

\* The slot of the control block that a step creates.
Forked(c) == tcb[c].status = "Free" /\ tcb'[c].status # "Free"

\* The frames that back the pages of the areas of slot s.
DataFrames(m, s) == {Translate(m.space[s], v) : v \in AreaVpns(m.space[s])}

\* C7: right after a fork every page of every area of the parent is mapped
\* in the child with the same contents but in another frame, and no frame
\* of the child backs a page of any other task; a store by a task changes
\* no page of another task.
C7_ForkCopiesMemory ==
    [][/\ \A c \in Slots :
            (last'.op = "fork" /\ Forked(c)) =>
                LET p == last'.who
                    src == mem'.space[p]
                    dst == mem'.space[c]
                IN /\ AreaVpns(src) = AreaVpns(mem.space[p])
                   /\ AreaVpns(dst) = AreaVpns(src)
                   /\ \A v \in AreaVpns(src) :
                        /\ Translate(dst, v) \in Frames
                        /\ Translate(src, v) = Translate(mem.space[p], v)
                        /\ Translate(dst, v) # Translate(src, v)
                        /\ mem'.bytes[Translate(dst, v)] = mem'.bytes[Translate(src, v)]
                        /\ mem'.bytes[Translate(src, v)] = mem.bytes[Translate(src, v)]
                   /\ \A s \in Slots \ {c} :
                        DataFrames(mem', c) \cap DataFrames(mem', s) = {}
       /\ last'.op = "store" =>
            \A s \in Slots \ {last'.who} : \A f \in DataFrames(mem, s) :
                mem'.bytes[f] = mem.bytes[f]
       /\ \A s \in Slots : \A q \in Slots \ {s} :
            DataFrames(mem, s) \cap DataFrames(mem, q) = {}
      ]_vars

\* C7's case: a forked child has stored to its copy of a page of the LOAD
\* segment and reads the stored value there while its parent still reads
\* the byte of the ELF image, and another page holds a stored value in both.
C7_Witness ==
    /\ last.op = "store"
    /\ tcb[last.who].parent # 0
    /\ LET c == last.who
           p == tcb[c].parent
       IN /\ tcb[p].status \in {"Ready", "Running"}
          /\ last.arg \in AreaVpns(mem.space[p])
          /\ mem.bytes[Translate(mem.space[c], last.arg)] = last.arg2
          /\ mem.bytes[Translate(mem.space[p], last.arg)] = ElfByte(last.arg)
          /\ \E v \in AreaVpns(mem.space[p]) \ {last.arg} :
                /\ mem.bytes[Translate(mem.space[p], v)] \in StoreValues
                /\ mem.bytes[Translate(mem.space[c], v)] \in StoreValues

----------------------------------------------------------------------------
(* Claims about signals. *)

\* A step by which task p leaves trap_handler for user mode.
ReturnsToUser(p) ==
    /\ tcb[p].kpc \in {"ret", "ret_yield"}
    /\ tcb'[p].kpc = "user"

\* Signal s is the one pending signal of task p, sent by another process (p
\* is not the sender); p has a handler for it, does not mask it, and handles
\* no signal.
Deliverable(p, s) ==
    /\ Receiver(p)
    /\ tcb[p].signals = {s}
    /\ s \notin tcb[p].signal_mask
    /\ tcb[p].handling_sig = 0 - 1
    /\ tcb[p].signal_actions[s].handler # 0
    /\ ~tcb[p].frozen
    /\ ~tcb[p].killed

\* C8: when a process has registered a handler H for a user signal s, does
\* not mask s and handles no signal, and a kill has made s pending, its next
\* return from the kernel to user mode enters H with a0 = s, handling_sig = s
\* and s no longer pending.
C8_HandlerEntered ==
    [][\A p \in Slots : \A s \in UserSigs :
          (ReturnsToUser(p) /\ Deliverable(p, s)) =>
              /\ tcb'[p].cx.sepc = tcb[p].signal_actions[s].handler
              /\ tcb'[p].cx.a0 = s
              /\ tcb'[p].handling_sig = s
              /\ s \notin tcb'[p].signals]_vars

\* A step that serves the sigreturn of a handler whose dispatch is outstanding.
SigreturnStep ==
    /\ last.op = "none"
    /\ last'.op = "sigreturn"
    /\ last'.out # <<>>

KillStep ==
    /\ last.op = "none"
    /\ last'.op = "kill"
    /\ pid2tcb[last'.arg] # 0
    /\ last'.arg2 \in 0..MAX_SIG

BadKillStep ==
    /\ last.op = "none"
    /\ last'.op = "kill"
    /\ pid2tcb[last'.arg] = 0 \/ last'.arg2 \notin 0..MAX_SIG

\* C11: sys_kill returns -1 and changes no process's pending set when the
\* pid names no live process (one that has exited included) or the signal
\* number is outside 0..31.
C11_KillBadArgs ==
    [][BadKillStep =>
          /\ tcb'[last'.who].cx.a0 = 0 - 1
          /\ \A s \in Slots : tcb'[s].signals = tcb[s].signals]_vars

\* Task p runs one pass of handle_signals: it is on its way out of
\* trap_handler, or resumes inside the loop of handle_signals.
HandleSignalsStep(p) ==
    /\ Running(p)
    /\ tcb[p].kpc \in {"ret", "ret_yield", "sig_loop"}
    /\ tcb' # tcb

\* Signal s is pending for p, not in its mask and not masked by a handler in
\* progress.
Unmasked(p, s) ==
    /\ s \in tcb[p].signals
    /\ s \notin tcb[p].signal_mask
    /\ ~HandlerMasks(tcb[p], s)

\* check_pending_signals reaches kernel signal s in this pass: s is unmasked
\* and no unmasked user signal with a lower number ends the pass before it.
Delivered(p, s) ==
    /\ Unmasked(p, s)
    /\ \A u \in 0..(s - 1) : ~(u \notin KernelSigs /\ Unmasked(p, u))

C13_KernelSignals ==
    [][\A p \in Slots : HandleSignalsStep(p) =>
          /\ Delivered(p, SIGSTOP) =>
                tcb'[p].frozen /\ SIGSTOP \notin tcb'[p].signals
          /\ Delivered(p, SIGCONT) =>
                /\ SIGCONT \notin tcb'[p].signals
                /\ ~Delivered(p, SIGSTOP) => ~tcb'[p].frozen
          /\ Delivered(p, SIGKILL) => tcb'[p].killed
          /\ \A q \in Slots \ {p} :
                /\ tcb'[q].frozen = tcb[q].frozen
                /\ tcb'[q].killed = tcb[q].killed]_vars

\* C13 witness: a process frozen by SIGSTOP waits inside handle_signals with
\* the SIGSTOP bit cleared, while another has been killed by a SIGKILL, which
\* stays pending, and is not frozen.
C13_Witness ==
    \E p \in Slots : \E q \in Slots \ {p} :
        /\ tcb[p].frozen /\ tcb[p].kpc = "sig_loop"
        /\ SIGSTOP \notin tcb[p].signals
        /\ tcb[q].killed /\ ~tcb[q].frozen
        /\ tcb[q].signals = {SIGKILL}

\* C14: a pass of check_pending_signals that delivers SIGDEF and no other
\* kernel signal leaves killed and frozen as they were, and the process
\* goes on to user mode if it is not frozen.
C14_SigdefIgnored ==
    [][\A p \in Slots :
          (/\ HandleSignalsStep(p)
           /\ Delivered(p, SIGDEF)
           /\ \A s \in KernelSigs \ {SIGDEF} : ~Unmasked(p, s)) =>
              /\ tcb'[p].killed = tcb[p].killed
              /\ tcb'[p].frozen = tcb[p].frozen
              /\ ~tcb[p].frozen => tcb'[p].kpc = "user"]_vars

\* A step that serves a sigaction system call.
SigactionStep == last.op = "none" /\ last'.op = "sigaction"

\* C15: sys_sigaction returns -1 and leaves the caller's action table as it
\* was when signum is outside 0..31, when action or old_action is null, or
\* when signum is SIGKILL or SIGSTOP; otherwise it stores the action installed
\* before at old_action, installs the new action for signum alone and
\* returns 0.  No other process's table changes.
C15_Sigaction ==
    [][SigactionStep =>
          LET p == last'.who
              signum == last'.arg
              action == last'.arg2[1]
              old_action == last'.arg2[2]
              bad == \/ signum \notin 0..MAX_SIG
                     \/ action = <<>>
                     \/ ~old_action
                     \/ signum \in {SIGKILL, SIGSTOP}
          IN /\ IF bad
                THEN /\ tcb'[p].cx.a0 = 0 - 1
                     /\ tcb'[p].signal_actions = tcb[p].signal_actions
                     /\ last'.out = <<>>
                ELSE /\ tcb'[p].cx.a0 = 0
                     /\ last'.out = <<tcb[p].signal_actions[signum]>>
                     /\ tcb'[p].signal_actions[signum] = action[1]
                     /\ \A s \in ModelSigs \ {signum} :
                            tcb'[p].signal_actions[s] = tcb[p].signal_actions[s]
             /\ \A q \in Slots \ {p} :
                    tcb'[q].signal_actions = tcb[q].signal_actions]_vars

\* C15 witness: a sigaction has replaced a handler installed before, handing
\* the old action back, in a child whose SIGSTOP entry is still the default
\* action.
C15_Witness ==
    /\ last.op = "sigaction"
    /\ tcb[last.who].cx.a0 = 0
    /\ last.out # <<>>
    /\ last.out[1].handler # 0
    /\ tcb[last.who].signal_actions[last.arg] # last.out[1]
    /\ tcb[last.who].signal_actions[SIGSTOP].handler = 0
    /\ tcb[last.who].parent # 0

----------------------------------------------------------------------------
(* Claims about read and write on descriptors. *)

\* fd is not open in p for the direction dir ("r" or "w").
NotOpenFor(p, fd, dir) ==
    IF fd + 1 > Len(tcb[p].fd_table)
    THEN TRUE
    ELSE IF dir = "r"
         THEN tcb[p].fd_table[fd + 1] \notin {"stdin", "pipe_r"}
         ELSE tcb[p].fd_table[fd + 1] \notin {"stdout", "pipe_w"}

\* C16: a read or write system call on a descriptor that is not open in the
\* caller, or that does not permit the direction, returns -1; the kernel
\* keeps running and no other state changes.
C16_BadFdReturnsError ==
    [][(/\ last.op = "none"
        /\ last'.op \in {"sys_read", "sys_write"}
        /\ NotOpenFor(last'.who, last'.arg,
                      IF last'.op = "sys_read" THEN "r" ELSE "w"))
       => /\ halted' = "no"
          /\ tcb'[last'.who].cx.a0 = 0 - 1
          /\ tcb'[last'.who].fd_table = tcb[last'.who].fd_table
          /\ mem' = mem]_vars

----------------------------------------------------------------------------
(* Claims about pipes. *)

\* C1: the bytes delivered to the reader are a prefix of the bytes accepted
\* from the writer, in the same order, and the accepted bytes not yet
\* delivered are exactly the readable content of the ring, in order: no byte
\* is lost, duplicated, reordered or overwritten before it is read.
C1_PipePrefix ==
    /\ Len(delivered) <= Len(accepted)
    /\ \A i \in 1..Len(delivered) : delivered[i] = accepted[i]
    /\ Len(accepted) - Len(delivered) <= RING_BUFFER_SIZE
    /\ \A j \in 1..(Len(accepted) - Len(delivered)) :
           ring.arr[(ring.head + j - 1) % RING_BUFFER_SIZE]
               = accepted[Len(delivered) + j]

\* C1 witness: more bytes than the ring holds have gone through the pipe, so
\* the ring has been full and has wrapped around, and all were delivered.
C1_Witness ==
    /\ Len(delivered) = MaxBytes
    /\ delivered = accepted
    /\ ring.head = MaxBytes % RING_BUFFER_SIZE

\* C2: a read started when no descriptor holds the write end and the ring is
\* empty returns 0 at once, without suspending; and a read of n > 0 bytes
\* that returns fewer than n returns with the ring empty and no descriptor
\* holding the write end.
C2_ReadEof ==
    [][/\ \A p \in Slots :
            (/\ InUser(p)
             /\ tcb'[p].kpc = "in_read" \/ (last'.op = "read" /\ last'.who = p)
             /\ WriteEndCount(tcb) = 0
             /\ ring.status = "Empty")
            => /\ tcb'[p].kpc = "ret"
               /\ tcb'[p].cx.a0 = 0
       /\ (/\ last.op = "none"
           /\ last'.op = "read"
           /\ last'.arg > 0
           /\ tcb'[last'.who].cx.a0 < last'.arg)
          => /\ ring'.status = "Empty"
             /\ WriteEndCount(tcb') = 0]_vars

\* C2 witness: after the pipe has carried bytes and been drained, and every
\* descriptor of the write end has been closed, a read has returned 0.
C2_Witness ==
    /\ last.op = "read"
    /\ last.arg > 0
    /\ tcb[last.who].cx.a0 = 0
    /\ accepted # <<>>
    /\ delivered = accepted
    /\ WriteEndCount(tcb) = 0

\* The init process has closed its write end (so it has written all it will).
WriterClosed ==
    /\ ring.write_end
    /\ tcb[INITPROC].fd_table[PipeWriteFd] = "none"

\* Task c, the child, is inside its first read of the pipe, into a buffer
\* longer than everything written to the pipe.
BlockedInRead(c) ==
    /\ tcb[c].status # "Free"
    /\ Reader(c)
    /\ tcb[c].kpc = "in_read"
    /\ Len(delivered) = tcb[c].kloc.done
    /\ tcb[c].kloc.want > Len(accepted)

\* The read of task c has returned the number of bytes written, with the
\* written bytes in its buffer.
ReadReturnedAll(c) ==
    /\ last.op = "read"
    /\ last.who = c
    /\ tcb[c].cx.a0 = Len(accepted)
    /\ delivered = accepted

----------------------------------------------------------------------------
(* Claims about the block cache. *)

\* The block ids of a queue, in order.
BlockIds(queue) == [i \in 1..Len(queue) |-> queue[i].block_id]
\* The blocks callers hold a handle of.
HeldBlocks == {held[i] : i \in 1..Len(held)}
\* The cached entry of a block.
Entry(b) == bcm.queue[FindBlock(bcm.queue, b)]

\* C17: a read of block b through the cache returns the content most
\* recently written to b through the cache (the device's content if there
\* was none), whatever evictions, reloads and syncs happened in between.
C17_ReadLatest ==
    last.op = "read" => last.out = <<written[last.arg]>>

\* C17 witness: block 0 has been modified twice, evicted and loaded again
\* (it is the newest entry and clean), and a read of it returned the second
\* content.
C17_Witness ==
    /\ last.op = "read"
    /\ last.arg = 0
    /\ last.out = <<2>>
    /\ written[0] = 2
    /\ Len(bcm.queue) = BLOCK_CACHE_SIZE
    /\ bcm.queue[BLOCK_CACHE_SIZE].block_id = 0
    /\ ~bcm.queue[BLOCK_CACHE_SIZE].modified

\* C18: the queue never holds more than 16 entries, and no two of its
\* entries have the same block id.
C18_QueueBound ==
    /\ Len(bcm.queue) <= 16
    /\ \A i, j \in 1..Len(bcm.queue) :
           bcm.queue[i].block_id = bcm.queue[j].block_id => i = j

\* C18 witness: a block was requested while the queue was full and another
\* entry made room for it; the queue is full again.
C18_Witness ==
    /\ last.op = "get_block_cache"
    /\ last.out = <<"miss">>
    /\ last.arg2 # 0 - 1
    /\ Len(bcm.queue) = BLOCK_CACHE_SIZE

\* C19: a hit leaves the order of the queue as it is.  A miss on a queue of
\* 16 entries removes the earliest-inserted entry that no caller holds a
\* handle of and appends the new block; an entry a caller holds is never
\* removed; when callers hold all 16 the kernel panics and neither the queue
\* nor the device nor any entry is modified.
C19_Eviction ==
    [][last'.op = "get_block_cache" =>
          LET b == last'.arg
              q == bcm.queue
              unheld == {i \in 1..Len(q) : q[i].block_id \notin HeldBlocks}
              first == CHOOSE i \in unheld : \A j \in unheld : i <= j
          IN /\ \A h \in HeldBlocks : h \in CachedBlocks'
             /\ IF b \in CachedBlocks
                THEN BlockIds(bcm'.queue) = BlockIds(q)
                ELSE IF Len(q) < BLOCK_CACHE_SIZE
                THEN BlockIds(bcm'.queue) = Append(BlockIds(q), b)
                ELSE IF unheld # {}
                THEN BlockIds(bcm'.queue) = Append(BlockIds(Drain(q, first)), b)
                ELSE /\ halted' = "panic"
                     /\ bcm' = bcm
                     /\ disk' = disk
                     /\ held' = held]_vars

\* C19 witness: the front entry is held by a caller and has survived an
\* eviction that removed an entry inserted after it.
C19_Witness ==
    /\ last.op = "get_block_cache"
    /\ last.arg2 # 0 - 1
    /\ Len(held) = 2
    /\ bcm.queue[1].block_id = held[1]
    /\ held[1] < last.arg2

\* C20: the device is written only when an entry is evicted or synced, and
\* then exactly for the entries that are dirty, once each, with their cached
\* content; an entry that has been written back is clean.
C20_WriteBack ==
    [][LET q == bcm.queue
           dirty == {q[i].block_id : i \in {j \in 1..Len(q) : q[j].modified}}
           gone == CachedBlocks \ CachedBlocks'
           due == IF last'.op = "sync_all" THEN dirty
                  ELSE IF last'.op = "get_block_cache" THEN dirty \cap gone
                  ELSE {}
       IN /\ {wrote'[i] : i \in 1..Len(wrote')} = due
          /\ Len(wrote') = Cardinality(due)
          /\ \A b \in Blocks :
                disk'[b] = IF b \in due THEN Entry(b).cache ELSE disk[b]
          /\ \A i \in 1..Len(bcm'.queue) :
                bcm'.queue[i].block_id \in due => ~bcm'.queue[i].modified]_vars

\* C20 witness: a sync has written back a dirty block while a clean one stayed
\* as it was, and the block written back is clean.
C20_Witness ==
    /\ last.op = "sync_all"
    /\ wrote = <<0>>
    /\ Len(bcm.queue) > 1
    /\ ~Entry(0).modified
    /\ disk[0] = Entry(0).cache
    /\ disk[0] # 0

----------------------------------------------------------------------------
(* Claims about the bitmap. *)

\* The content of a block as the cache presents it: the cached copy if the
\* block is cached, the device's otherwise.
BlockView(queue, d, b) ==
    IF FindBlock(queue, b) # 0 THEN queue[FindBlock(queue, b)].cache ELSE d[b]

\* The bits of the bitmap that are 1, as absolute indices.
SetBits(queue, d, bm) ==
    {i \in 0..(bm.blocks * 4096 - 1) :
        (i % 64) \in BlockView(queue, d, bm.start_block_id + i \div 4096)[(i % 4096) \div 64]}

\* The last call on the bitmap.
LastCall == bmlog'[Len(bmlog')]
BitmapStep == Len(bmlog') = Len(bmlog) + 1

\* C21: a successful alloc returns an index below maximum() whose bit was 0
\* before the call and is 1 after it, and changes no other bit; so two allocs
\* return the same index only if it was deallocated in between.
C21_AllocFresh ==
    /\ [][(BitmapStep /\ LastCall.op = "alloc" /\ LastCall.out # <<>>) =>
             LET i == LastCall.out[1]
                 before == SetBits(bcm.queue, disk, TheBitmap)
                 after == SetBits(bcm'.queue, disk', TheBitmap)
             IN /\ i < Maximum(TheBitmap)
                /\ i \notin before
                /\ after = before \cup {i}]_vars
    /\ [](\A j, k \in 1..Len(bmlog) :
             (/\ j < k
              /\ bmlog[j].op = "alloc" /\ bmlog[k].op = "alloc"
              /\ bmlog[j].out # <<>> /\ bmlog[j].out = bmlog[k].out)
             => \E m \in (j + 1)..(k - 1) :
                   bmlog[m].op = "dealloc" /\ bmlog[m].bit = bmlog[j].out[1])

\* C21 witness: two allocs have returned the last bit of the first block, with
\* its dealloc between them, and a third has gone on to the second block.
C21_Witness ==
    /\ Len(bmlog) = 4
    /\ bmlog[1].op = "alloc" /\ bmlog[1].out = <<4095>>
    /\ bmlog[2].op = "dealloc" /\ bmlog[2].bit = 4095 /\ ~bmlog[2].panic
    /\ bmlog[3].op = "alloc" /\ bmlog[3].out = <<4095>>
    /\ bmlog[4].op = "alloc" /\ bmlog[4].out = <<4096>>

\* C22: alloc returns the lowest clear bit of the whole bitmap; when every
\* bit is set it returns None and changes no bit; dealloc of a set bit clears
\* that bit and no other (so the next alloc returns it when it is the lowest
\* clear bit).
C22_AllocLowest ==
    [][BitmapStep =>
          LET before == SetBits(bcm.queue, disk, TheBitmap)
              after == SetBits(bcm'.queue, disk', TheBitmap)
              clear == 0..(Maximum(TheBitmap) - 1) \ before
          IN IF LastCall.op = "alloc"
             THEN IF clear = {}
                  THEN LastCall.out = <<>> /\ after = before
                  ELSE /\ LastCall.out # <<>>
                       /\ LastCall.out[1] \in clear
                       /\ \A c \in clear : LastCall.out[1] <= c
             ELSE LastCall.bit \in before =>
                     after = before \ {LastCall.bit} /\ ~LastCall.panic]_vars

\* C22 witness: the last clear bit was allocated, the next alloc returned
\* None, bit 0 was deallocated and the alloc after that returned 0.
C22_Witness ==
    /\ Len(bmlog) = 4
    /\ bmlog[1].op = "alloc" /\ bmlog[1].out = <<BitmapBlocks * 4096 - 1>>
    /\ bmlog[2].op = "alloc" /\ bmlog[2].out = <<>>
    /\ bmlog[3].op = "dealloc" /\ bmlog[3].bit = 0
    /\ bmlog[4].op = "alloc" /\ bmlog[4].out = <<0>>

----------------------------------------------------------------------------
(* Address spaces: the areas and the page table. *)

\* The frame that the area records for vpn in data_frames, 0 if none.
RecordedFrame(area, vpn) ==
    LET tracked == {k \in 1..Len(area.data_frames) : area.data_frames[k][1] = vpn}
    IN IF tracked = {} THEN 0
       ELSE area.data_frames[CHOOSE k \in tracked : TRUE][2]

\* The pages of an area.
RangeVpns(area) ==
    {v \in Vpns : area.vpn_range[1] <= v /\ v < area.vpn_range[2]}

\* C23: in every address space, after any sequence of insertions, removals,
\* shrink_to, append_to and forks, every page of every Framed area in the
\* list of areas translates to a valid leaf entry whose R, W, X, U flags
\* are the permissions of the area and whose frame is the one that the
\* area records for the page.
C23_FramedPagesMapped ==
    \A s \in Slots : \A i \in 1..Len(mem.space[s].areas) :
        LET ms == mem.space[s]
            area == ms.areas[i]
        IN area.map_type = "Framed" =>
            \A v \in RangeVpns(area) :
                /\ IsValid(ms, v)
                /\ ms.flags[v] \cap {"R", "W", "X", "U"} = area.map_perm
                /\ RecordedFrame(area, v) \in Frames
                /\ Translate(ms, v) = RecordedFrame(area, v)

\* A forked child holds the clone of an area that its parent inserted on
\* the guard page, has shrunk its user stack to one page, and the parent
\* has just grown the area above its user stack.
C23_Witness ==
    /\ halted = "no"
    /\ last.op = "append_to"
    /\ last.who = INITPROC
    /\ IsValid(mem.space[INITPROC], UserStackTop)
    /\ \E c \in Slots \ {INITPROC} :
        /\ \E i \in 1..Len(mem.space[c].areas) :
            /\ mem.space[c].areas[i].vpn_range = <<LoadEnd, UserStackBottom>>
            /\ mem.space[c].areas[i].map_perm = {"R", "U"}
        /\ \E i \in 1..Len(mem.space[c].areas) :
            mem.space[c].areas[i].vpn_range = <<UserStackBottom, UserStackBottom + 1>>
        /\ ~IsValid(mem.space[c], UserStackBottom + 1)

----------------------------------------------------------------------------
(* Frames and their owners. *)

\* The free pool of the allocator: the recycled frames and the frames from
\* the bump pointer on.
FreePool ==
    SeqToSet(mem.fa.recycled) \cup {f \in Frames : f >= mem.fa.current}

\* The live trackers that hold frame f: entries of the data_frames of the
\* areas, entries of QUEUE_FRAMES.
RegionHolders(f) ==
    {<<s, i, k>> \in Slots \X (1..Cardinality(Vpns)) \X (1..Cardinality(Vpns)) :
        /\ i <= Len(mem.space[s].areas)
        /\ k <= Len(mem.space[s].areas[i].data_frames)
        /\ mem.space[s].areas[i].data_frames[k][2] = f}
QueueHolders(f) ==
    {k \in 1..Len(mem.queue_frames) : mem.queue_frames[k] = f}

\* C27: after any sequence of frame allocations, tracker drops and explicit
\* frame_dealloc calls, dma_alloc and dma_dealloc among them, no frame is
\* in the free pool while a live tracker owns it, and no frame has two
\* holders.
C27_FramesExclusive ==
    \A f \in Frames :
        /\ (RegionHolders(f) # {} \/ QueueHolders(f) # {}) => f \notin FreePool
        /\ Cardinality(RegionHolders(f)) + Cardinality(QueueHolders(f)) <= 1

----------------------------------------------------------------------------
(* The pid allocator. *)

\* The control blocks that exist; each holds one PidHandle.
LiveSlots == {s \in Slots : tcb[s].status # "Free"}

PidsUnique ==
    /\ \A s \in LiveSlots : \A t \in LiveSlots : s # t => tcb[s].pid # tcb[t].pid
    /\ \A i \in 1..Len(pidalloc.recycled) :
        /\ pidalloc.recycled[i] < pidalloc.current
        /\ \A j \in 1..Len(pidalloc.recycled) :
                i # j => pidalloc.recycled[i] # pidalloc.recycled[j]
    /\ \A s \in LiveSlots :
        /\ tcb[s].pid < pidalloc.current
        /\ \A i \in 1..Len(pidalloc.recycled) : pidalloc.recycled[i] # tcb[s].pid

PidAllocStep ==
    \A c \in Slots : Forked(c) =>
        IF pidalloc.recycled # <<>>
        THEN /\ tcb'[c].pid = pidalloc.recycled[Len(pidalloc.recycled)]
             /\ pidalloc'.current = pidalloc.current
             /\ pidalloc'.recycled =
                    SubSeq(pidalloc.recycled, 1, Len(pidalloc.recycled) - 1)
        ELSE /\ tcb'[c].pid = pidalloc.current
             /\ pidalloc'.current = pidalloc.current + 1
             /\ pidalloc'.recycled = <<>>

\* C24: no two live PidHandles hold the same pid; every recycled pid is
\* below the bump counter and occurs once in the recycled stack; the pid of
\* every live handle passes the two assertions of dealloc; alloc hands out
\* the pid recycled last if there is one and the bump counter otherwise.
C24_PidAllocator == []PidsUnique /\ [][PidAllocStep]_vars

\* A fork has taken pid 1, recycled after pid 2, from the recycled stack.
C24_Witness ==
    /\ last.op = "fork"
    /\ pidalloc.current = 3
    /\ pidalloc.recycled = <<2>>
    /\ \E c \in LiveSlots : tcb[c].pid = 1 /\ tcb[c].status = "Ready"

----------------------------------------------------------------------------
(* Parents and children. *)

\* The places <<owner, index>> at which s stands in a children list.
ChildPlaces(s) ==
    {<<o, i>> \in LiveSlots \X (1..MaxTasks) :
        i <= Len(tcb[o].children) /\ tcb[o].children[i] = s}

OneParent ==
    \A s \in LiveSlots \ {INITPROC} :
        /\ Cardinality(ChildPlaces(s)) = 1
        /\ \A place \in ChildPlaces(s) : tcb[s].parent = place[1]

\* The step on which p becomes a zombie.
Exits(p) == tcb[p].status = "Running" /\ tcb'[p].status = "Zombie"

ExitHandsOver ==
    \A p \in Slots : Exits(p) =>
        /\ tcb'[p].children = <<>>
        /\ tcb'[INITPROC].children = tcb[INITPROC].children \o tcb[p].children
        /\ \A i \in 1..Len(tcb[p].children) :
                tcb'[tcb[p].children[i]].parent = INITPROC

\* C25: every process other than INITPROC that has not been reaped stands
\* in exactly one children list, once, and its parent pointer designates
\* the owner of that list; when a process exits, its children are appended
\* to the children of INITPROC, point to INITPROC, and its own children
\* list is empty.
C25_ParentChildren == []OneParent /\ [][ExitHandsOver]_vars

\* The child of a child has been handed over: INITPROC, whose last system
\* call returned 1, holds the zombie of pid 1 without children and behind
\* it the live task of pid 2, which points to INITPROC; three pids were
\* allocated and none is recycled.
C25_Witness ==
    /\ Len(tcb[INITPROC].children) = 2
    /\ pidalloc = [current |-> 3, recycled |-> <<>>]
    /\ LET z == tcb[INITPROC].children[1]
           k == tcb[INITPROC].children[2]
       IN /\ tcb[z].status = "Zombie" /\ tcb[z].children = <<>> /\ tcb[z].pid = 1
          /\ tcb[k].status # "Zombie" /\ tcb[k].parent = INITPROC /\ tcb[k].pid = 2
          /\ tcb[INITPROC].cx.a0 = 1

----------------------------------------------------------------------------
(* The ring buffer of a pipe. *)

\* Bytes written to the ring and not yet read.
Unread == Len(accepted) - Len(delivered)

RingShape ==
    /\ (ring.head = ring.tail) <=> (ring.status \in {"Empty", "Full"})
    /\ ring.status = "Empty" => Unread = 0
    /\ ring.status = "Full" => Unread = RING_BUFFER_SIZE
    /\ AvailableRead(ring) = Unread
    /\ AvailableRead(ring) + AvailableWrite(ring) = RING_BUFFER_SIZE

\* read_byte runs once for each byte that a step delivers and write_byte
\* once for each byte that a step accepts: a step reads no more bytes than
\* were unread and writes no more than were free, so read_byte never meets
\* an Empty ring and write_byte never a Full one.
RingCalls ==
    /\ Len(delivered') - Len(delivered) <= Unread
    /\ Len(accepted') - Len(accepted) <= RING_BUFFER_SIZE - Unread
    /\ ring.status = "Empty" => delivered' = delivered
    /\ ring.status = "Full" => accepted' = accepted

\* C28: head = tail exactly when the status is Empty or Full; Empty means
\* no unread byte and Full means 32; available_read + available_write = 32;
\* read_byte is never called on an Empty ring and write_byte never on a
\* Full one.
C28_RingInvariants == []RingShape /\ [][RingCalls]_vars

\* The ring is full after it has wrapped round: 32 bytes are unread and
\* head = tail lies inside the array.
C28_Witness ==
    /\ ring.status = "Full"
    /\ ring.head = ring.tail
    /\ ring.head > 0
    /\ Unread = RING_BUFFER_SIZE
    /\ delivered # <<>>

----------------------------------------------------------------------------
(* The place of every task. *)

\* The positions of s in the ready queue.
ReadyPlaces(s) == {i \in 1..Len(ready) : ready[i] = s}

TaskPlaces ==
    halted = "no" =>
        /\ \A s \in Slots :
            /\ tcb[s].status = "Running" => current = s /\ ReadyPlaces(s) = {}
            /\ tcb[s].status = "Ready" =>
                    current # s /\ Cardinality(ReadyPlaces(s)) = 1
            /\ tcb[s].status \in {"Zombie", "Free"} =>
                    current # s /\ ReadyPlaces(s) = {}
        /\ Cardinality({s \in Slots : tcb[s].status = "Running"}) <= 1

ZombieStays ==
    \A s \in Slots : tcb[s].status = "Zombie" =>
        /\ tcb'[s].status \in {"Zombie", "Free"}
        /\ current' # s

\* C30: while the kernel runs, every live process is in exactly one place:
\* it is the current task and Running, or it stands once in the ready queue
\* and is Ready; at most one task is Running; a zombie is neither current
\* nor in the ready queue, and is never switched to again.
C30_TaskPlaces == []TaskPlaces /\ [][ZombieStays]_vars

\* A task runs in user mode while a zombie waits to be reaped and a third
\* task stands in the ready queue.
C30_Witness ==
    /\ halted = "no"
    /\ current # 0
    /\ tcb[current].kpc = "user"
    /\ Len(ready) = 1
    /\ tcb[ready[1]].status = "Ready"
    /\ \E z \in Slots : tcb[z].status = "Zombie"

----------------------------------------------------------------------------
(* The blocking waitpid of the user library. *)

\* sys_waitpid of the parent has returned pid, with code stored through
\* exit_code_ptr: the loop of waitpid returns pid.
WaitpidReturned(pid, code) ==
    /\ last.op = "waitpid"
    /\ last.who = INITPROC
    /\ last.out = <<code>>
    /\ tcb[INITPROC].cx.a0 = pid
    /\ tcb[INITPROC].kpc = "ret"

\* The child in slot c of the parent has exited with code and has pid.
ChildExited(c, pid, code) ==
    /\ tcb[c].status = "Zombie"
    /\ tcb[c].parent = INITPROC
    /\ tcb[c].pid = pid
    /\ tcb[c].exit_code = code

\* A call of sys_waitpid by the parent while the awaited child is alive
\* returns -2, and the loop goes on with yield_.
LoopGoesOn ==
    (/\ last'.op = "waitpid"
     /\ last' # last
     /\ tcb[INITPROC].children # <<>>
     /\ tcb[tcb[INITPROC].children[1]].status # "Zombie")
    => /\ tcb'[INITPROC].cx.a0 = 0 - 2
       /\ tcb'[INITPROC].children = tcb[INITPROC].children
       /\ last'.out = <<>>

\* C26: under fair scheduling, once a child of the parent has exited with
\* code c, the parent's blocking waitpid for it eventually returns the
\* child's pid with exit code c; as long as the child is alive, the loop
\* does not return.
C26_WaitpidReturns ==
    /\ [][LoopGoesOn]_vars
    /\ \A pid \in Pids \ {0} : \A code \in ExitCodes \cup {0 - 2, 0 - 3} :
            (\E c \in Slots \ {INITPROC} :
                ChildExited(c, pid, code) /\ tcb[INITPROC].children[1] = c)
                ~> WaitpidReturned(pid, code)

\* The loop has returned pid 2 of a child that ended with a fault; the
\* child is reaped.  Pid 2 stands for a child of a child, handed over to
\* the parent, or for a child forked while pid 1 was in use.
C26_Witness ==
    /\ WaitpidReturned(2, 0 - 3)
    /\ tcb[INITPROC].children = <<>>
    /\ \A s \in Slots \ {INITPROC} : tcb[s].status = "Free"

----------------------------------------------------------------------------
(* Claims about exclusive borrows at context switches. *)

\* C29: at every __switch, from run_tasks or from schedule (reached by
\* yield, the timer, a blocked pipe read or write, stdin without input, the
\* wait of a frozen task, or exit), the outgoing control flow has no
\* exclusive borrow of PROCESSOR, of a task's inner state or of the pipe's
\* ring, and no control flow ever borrows a cell that is borrowed already.
C29_NoBorrowAtSwitch ==
    /\ cells.at_switch = {}
    /\ cells.taken = {}
    /\ ~cells.error

\* The reader is suspended inside Pipe::read, the other task is frozen and
\* suspended inside handle_signals, and the idle loop is about to fetch.
C29_Witness ==
    /\ current = 0
    /\ halted = "no"
    /\ \E p, q \in Slots :
        /\ tcb[p].status = "Ready" /\ tcb[p].kpc = "in_read"
        /\ tcb[q].status = "Ready" /\ tcb[q].kpc = "sig_loop"

----------------------------------------------------------------------------
(* Claims about signal handlers in progress. *)

\* The step is the sigreturn of p.
SigreturnOf(p) == last'.op = "sigreturn" /\ last'.who = p

\* C31: while a user signal handler of p is in progress (handling_sig is
\* not -1), no step other than p's sigreturn overwrites handling_sig or
\* trap_ctx_backup: check_pending_signals starts no other handler.
C31_NoNestedHandler ==
    [][\A p \in Slots :
          (/\ tcb[p].status # "Free"
           /\ tcb[p].handling_sig # 0 - 1
           /\ ~SigreturnOf(p))
          => /\ tcb'[p].handling_sig = tcb[p].handling_sig
             /\ tcb'[p].trap_ctx_backup = tcb[p].trap_ctx_backup]_vars

\* The scheduler of the kernel-signal specification: the idle loop and the
\* tail of trap_handler run when they can, and the timer keeps firing for
\* whoever is in user mode.
KsigTimerStep == \E p \in Slots : TimerInterrupt(p)
KsigReturnStep == \E p \in Slots : TrapReturnSig(p)
\* The enabling condition of KsigReturnStep, from the guard of TrapReturnSig.
KsigCanReturn ==
    \E p \in Slots :
        Running(p) /\ tcb[p].kpc \in {"new", "ret", "ret_yield", "sig_loop"}

\* Weak fairness of KsigReturnStep and strong fairness of KsigTimerStep are
\* written with their enabling conditions.
FairKsig ==
    /\ WF_vars(RunTasks)
    /\ ([]<>(~KsigCanReturn) \/ []<><<KsigReturnStep>>_vars)
    /\ ([]<>TimerCanFire => []<><<KsigTimerStep>>_vars)

\* The signals that freeze, thaw and kill, sent by the init process to any
\* pid, with handle_signals before every return to user mode.
FrozenSignums == {SIGSTOP, SIGCONT, SIGKILL}

NextFrozen ==
    \/ RunTasks
    \/ KsigReturnStep
    \/ KsigTimerStep
    \/ \E p \in Slots : LiveTasks < SigTasks /\ SysFork(p)
    \/ \E p \in Slots : \E pid \in Pids : \E signum \in FrozenSignums :
           Sender(p) /\ SysKill(p, pid, signum)

SpecFrozen == Init /\ [][NextFrozen]_vars /\ FairKsig

\* p is frozen and not killed.
FrozenAlive(t) == t.frozen /\ ~t.killed

\* A pass of handle_signals that ends with p frozen and not killed suspends
\* p at the back of the ready queue, inside the loop.
FrozenSuspends ==
    \A p \in Slots :
        (HandleSignalsStep(p) /\ FrozenAlive(tcb'[p])) =>
            /\ tcb'[p].kpc = "sig_loop"
            /\ tcb'[p].status = "Ready"
            /\ ready' = Append(ready, p)
            /\ current' = 0

\* p leaves the loop of handle_signals only in a pass that delivers SIGCONT
\* or that finds or sets killed.
FrozenLeaves ==
    \A p \in Slots :
        (tcb[p].kpc = "sig_loop" /\ tcb'[p].kpc # "sig_loop") =>
            /\ HandleSignalsStep(p)
            /\ tcb'[p].kpc = "user"
            /\ \/ Delivered(p, SIGCONT) /\ ~tcb'[p].frozen
               \/ tcb'[p].killed

\* C32: a process that is frozen and not killed is never in user mode; each
\* pass of handle_signals that leaves it so suspends it, and it leaves the
\* loop only when SIGCONT is delivered or killed is set; while it waits
\* every other ready process gets to run.
C32_FrozenWaits ==
    /\ [](\A p \in Slots : tcb[p].kpc = "user" => ~FrozenAlive(tcb[p]))
    /\ [][FrozenSuspends /\ FrozenLeaves]_vars
    /\ \A p \in Slots : \A q \in Slots \ {p} :
          (/\ FrozenAlive(tcb[p]) /\ tcb[p].kpc = "sig_loop"
           /\ tcb[q].status = "Ready")
          ~> (tcb[q].status = "Running")

\* A frozen process has gone round the loop: it is suspended inside it at
\* the back of the queue, behind another process that is ready, with no
\* signal pending.
C32_Witness ==
    \E p \in Slots : \E q \in Slots \ {p} :
        /\ FrozenAlive(tcb[p]) /\ tcb[p].kpc = "sig_loop"
        /\ tcb[p].signals = {}
        /\ ready = <<q, p>>
        /\ tcb[q].kpc = "ret"

----------------------------------------------------------------------------
(* Kernel-handled signals next to user signals. *)

\* Signals sent in the specification that mixes the two kinds.
MixedSignums == {SIGUSR1, SIGKILL, SIGSTOP, SIGCONT}

\* User and kernel-handled signals sent by the init process to any pid, no
\* handler registered, handle_signals before every return to user mode.
NextMixed ==
    \/ RunTasks
    \/ KsigReturnStep
    \/ KsigTimerStep
    \/ \E p \in Slots : LiveTasks < SigTasks /\ SysFork(p)
    \/ \E p \in Slots : \E pid \in Pids : \E signum \in MixedSignums :
           Sender(p) /\ SysKill(p, pid, signum)

SpecMixed == Init /\ [][NextMixed]_vars

\* C33: in every pass of check_pending_signals each of SIGKILL, SIGSTOP and
\* SIGCONT that is pending and not masked has its kernel action applied in
\* that pass, whatever other signals are pending.
C33_KernelSignalsApplied ==
    [][\A p \in Slots : HandleSignalsStep(p) =>
          /\ Unmasked(p, SIGKILL) => tcb'[p].killed
          /\ Unmasked(p, SIGSTOP) =>
                tcb'[p].frozen /\ SIGSTOP \notin tcb'[p].signals
          /\ Unmasked(p, SIGCONT) => SIGCONT \notin tcb'[p].signals]_vars

----------------------------------------------------------------------------
(* Claims about sigreturn without a handler in progress. *)

\* The step is a call of sys_sigreturn by p: it returns, or the kernel
\* panics in it (no other system call of these programs panics).
SigreturnCall(p) ==
    /\ InUser(p)
    /\ \/ SigreturnOf(p)
       \/ halted' = "panic"

\* C34: sys_sigreturn called by a process with no handler dispatch
\* outstanding (handling_sig = -1) does not panic: it returns -1 and leaves
\* the trap context as it was.
C34_SigreturnError ==
    [][\A p \in Slots :
          (SigreturnCall(p) /\ tcb[p].handling_sig = 0 - 1) =>
              /\ halted' = "no"
              /\ tcb'[p].cx = [tcb[p].cx EXCEPT !.a0 = 0 - 1,
                                                !.sepc = NextPc(@)]]_vars


----------------------------------------------------------------------------
(* Claims about what waitpid changes. *)

\* The children of p whose pid is pid, in the state after the step.
ChildrenWithPid(p, pid) ==
    {i \in 1..Len(tcb'[p].children) : tcb'[tcb'[p].children[i]].pid = pid}

\* C35: a waitpid that returns a pid removes that zombie, and nothing else,
\* from the caller's children list, drops its control block (and with it its
\* kernel stack and address space) and hands its pid back to the allocator,
\* so that no child of the caller holds that pid afterwards and a waitpid
\* for a pid that no child holds returns -1; a waitpid that returns -1 or -2
\* changes nothing but the caller's return value and pc.
C35_WaitpidReaps ==
    [][WaitpidStep =>
        LET p == last'.who
            r == tcb'[p].cx.a0
            ret == [tcb[p] EXCEPT !.cx = [@ EXCEPT !.a0 = r, !.sepc = NextPc(@)],
                                  !.kpc = "ret"]
        IN /\ r \in {0 - 1, 0 - 2} =>
                /\ tcb' = [tcb EXCEPT ![p] = ret]
                /\ UNCHANGED <<ready, current, pidalloc, pid2tcb, mem,
                               pipeVars, cacheVars, cellVars, timerVars, halted>>
           /\ (last'.arg >= 0 /\ \A i \in 1..Len(tcb[p].children) :
                                     tcb[tcb[p].children[i]].pid # last'.arg)
                  => r = 0 - 1
           /\ r >= 0 =>
                \E i \in 1..Len(tcb[p].children) :
                    LET c == tcb[p].children[i] IN
                    /\ tcb[c].status = "Zombie"
                    /\ tcb[c].pid = r
                    /\ tcb' = [tcb EXCEPT ![p] = [ret EXCEPT !.children =
                                                    RemoveAt(@, i)],
                                          ![c] = FreeTcb]
                    /\ ChildrenWithPid(p, r) = {}
                    /\ pidalloc'.current = pidalloc.current
                    /\ pidalloc'.recycled = Append(pidalloc.recycled, r)
                    /\ mem'.space[c] = NewBare
                    /\ \A s \in Slots \ {c} : mem'.space[s] = mem.space[s]
                    /\ UNCHANGED <<ready, current, pid2tcb, pipeVars,
                                   cacheVars, cellVars, timerVars, halted>>]_vars

\* C35 witness: a waitpid for pid 2 has reaped that child while the caller
\* keeps another child, and pid 2 is the pid the allocator hands out next.
C35_Witness ==
    /\ last.op = "waitpid"
    /\ last.arg = 2
    /\ tcb[last.who].cx.a0 = 2
    /\ tcb[last.who].children # <<>>
    /\ pidalloc.recycled # <<>>
    /\ pidalloc.recycled[Len(pidalloc.recycled)] = 2
    /\ \A s \in Slots : tcb[s].pid # 2


----------------------------------------------------------------------------
(* Claims about the references to a zombie. *)

\* The zombies that stand in the children list of a live task.
ZombieChildren ==
    {c \in Slots : /\ tcb[c].status = "Zombie"
                   /\ \E p \in Slots : /\ tcb[p].status # "Free"
                                       /\ c \in SeqToSet(tcb[p].children)}

\* C36: the assertion of sys_waitpid never fails: a zombie that stands in a
\* children list, and so can be removed by waitpid, has exactly one strong
\* reference, the one of that list; the ready queue, the processor and the
\* pid-to-task map hold none, and no waitpid step stops the kernel.
C36_OnlyStrongReference ==
    /\ [](\A c \in ZombieChildren :
            StrongCount(tcb, ready, current, pid2tcb, c) = 1)
    /\ [][\A p \in Slots, pidarg \in PidArgs :
            (InUser(p) /\ WaitResult(tcb, p, pidarg) >= 0)
                => halted' # "panic"]_vars

\* C36 witness: INITPROC has reaped the zombie with pid 1 by waitpid and
\* still has the zombie with pid 2 in its children list.
C36_Witness ==
    /\ last.op = "waitpid"
    /\ last.who = INITPROC
    /\ tcb[INITPROC].cx.a0 > 0
    /\ \E c \in ZombieChildren :
          /\ c \in SeqToSet(tcb[INITPROC].children)
          /\ tcb[c].parent = INITPROC
          /\ tcb[c].pid = 2
          /\ tcb[INITPROC].cx.a0 = 1


----------------------------------------------------------------------------
(* Claims about the translation of user addresses. *)

\* The leaf entry of vpn in ms is valid.
LeafValid(ms, vpn) == vpn \in Vpns /\ IsValid(ms, vpn)

\* C37: for an address in a page whose leaf entry is not valid in the
\* address space of a live task translate_va returns None, and a call of
\* translated_refmut or translated_byte_buffer with such an address hands
\* the kernel no physical address.
C37_TranslateValidOnly ==
    /\ [](\A p \in Slots : \A va \in XlateVas :
            (tcb[p].status \in {"Ready", "Running"}
             /\ ~LeafValid(mem.space[p], VaFloor(va)))
                => TranslateVa(mem.space[p], va) = <<>>)
    /\ [][(last'.op = "translated_refmut" /\ last' # last
           /\ ~LeafValid(mem.space[last'.who], VaFloor(last'.arg)))
              => last'.out = <<>>]_vars
    /\ [][(last'.op = "translated_byte_buffer" /\ last' # last)
              => \A i \in 1..Len(last'.out) :
                    LeafValid(mem.space[last'.who],
                              VaFloor(last'.arg) + i - 1)]_vars


----------------------------------------------------------------------------
(* Claims about exec. *)

\* The step serves exec(name) of p to its end.
ExecStep(p, name) ==
    /\ last'.op = "exec"
    /\ last'.who = p
    /\ last'.arg = name
    /\ mem'.ops = mem.ops + 1

\* The pages of the LOAD segments of an image, and the greatest end.
SegmentVpns(phs) == UNION {phs[i][1]..(phs[i][2] - 1) : i \in 1..Len(phs)}
MaxEndVpn(phs) ==
    CHOOSE e \in {phs[i][2] : i \in 1..Len(phs)} :
        \A i \in 1..Len(phs) : phs[i][2] <= e

\* C38: for an image with LOAD segments in any order of the headers, the
\* address space that exec builds with from_elf has the user stack one page
\* above the greatest end page of the segments: the stack shares no page
\* with a segment, its pages are mapped and the page below it is not.
C38_StackAboveSegments ==
    [][\A p \in Slots : \A name \in 1..Len(ElfImages) :
          ExecStep(p, name) =>
            LET phs == ElfImages[name]
                bottom == MaxEndVpn(phs) + 1
                ms == mem'.space[p]
            IN /\ halted' = "no"
               /\ ms.areas[Len(phs) + 1].vpn_range =
                      <<bottom, bottom + USER_STACK_PAGES>>
               /\ \A v \in bottom..(bottom + USER_STACK_PAGES - 1) :
                      IsValid(ms, v) /\ v \notin SegmentVpns(phs)
               /\ ~IsValid(ms, bottom - 1)]_vars


\* C39: an exec that succeeds leaves the caller's pid, kernel stack, parent,
\* children, descriptor table, pending signals, signal mask, signal actions,
\* handling_sig, frozen and killed flags as they were, and changes nothing
\* of any other process: not its control block, its address space or the
\* contents of its pages, nor the ready queue, the processor, the pid
\* allocator, the pid-to-task map or the pipe.
C39_ExecFrame ==
    [][\A p \in Slots : \A name \in 1..Len(ElfImages) :
          (ExecStep(p, name) /\ halted' = "no") =>
            /\ tcb'[p].pid = tcb[p].pid
            /\ tcb'[p].cx.kernel_sp = KernelStackTop(tcb[p].pid)
            /\ tcb'[p].status = tcb[p].status
            /\ tcb'[p].parent = tcb[p].parent
            /\ tcb'[p].children = tcb[p].children
            /\ tcb'[p].fd_table = tcb[p].fd_table
            /\ tcb'[p].signals = tcb[p].signals
            /\ tcb'[p].signal_mask = tcb[p].signal_mask
            /\ tcb'[p].signal_actions = tcb[p].signal_actions
            /\ tcb'[p].handling_sig = tcb[p].handling_sig
            /\ tcb'[p].frozen = tcb[p].frozen
            /\ tcb'[p].killed = tcb[p].killed
            /\ \A s \in Slots \ {p} :
                  /\ tcb'[s] = tcb[s]
                  /\ mem'.space[s] = mem.space[s]
                  /\ \A f \in DataFrames(mem, s) : mem'.bytes[f] = mem.bytes[f]
            /\ UNCHANGED <<ready, current, pidalloc, pid2tcb, pipeVars>>]_vars

\* C39 witness: a process with a child, inside its handler of SIGUSR1, has
\* replaced its program by the file with two segments and is about to
\* return to the entry point.
C39_Witness ==
    /\ last.op = "exec"
    /\ last.arg = 2
    /\ halted = "no"
    /\ tcb[last.who].kpc = "ret"
    /\ tcb[last.who].cx.sepc = 0
    /\ tcb[last.who].children # <<>>
    /\ tcb[last.who].handling_sig = SIGUSR1
    /\ tcb[last.who].signal_actions[SIGUSR1].handler = HandlerVa(SIGUSR1)
    /\ tcb[last.who].trap_ctx_backup # <<>>
    /\ Len(mem.space[last.who].areas) = 5


----------------------------------------------------------------------------
(* Claims about time slices. *)

\* The step takes the timer interrupt of p, which runs in user mode.
TimerTaken(p) ==
    /\ InUser(p)
    /\ tcb'[p].status = "Ready"
    /\ tcb'[p].kpc = "ret"

\* s stands in the ready queue.
InReadyQueue(s) == \E i \in 1..Len(ready) : ready[i] = s

\* C40: the handler of a timer interrupt taken in user mode sets the next
\* trigger and puts the interrupted process at the back of the ready queue,
\* leaving the processor without a task; so, with the timer firing, no
\* process stays the current task for ever and every task that stands in
\* the ready queue becomes the current task.
C40_TimerPreempts ==
    /\ [][\A p \in Slots :
            TimerTaken(p) => /\ mtimecmp' = "set"
                             /\ ready' = Append(ready, p)
                             /\ current' = 0]_vars
    /\ \A p \in Slots : (current = p) ~> (current # p)
    /\ \A s \in Slots : InReadyQueue(s) ~> (current = s)

\* C40 witness: a process that was interrupted by the timer stands at the
\* back of the ready queue behind another task while a third one runs in
\* user mode.
C40_Witness ==
    /\ Len(ready) = 2
    /\ tcb[ready[2]].kpc = "ret"
    /\ tcb[ready[2]].cx.sepc = 0
    /\ tcb[ready[2]].cx.a0 = 0
    /\ tcb[ready[2]].parent # 0
    /\ current # 0
    /\ InUser(current)
    /\ mtimecmp = "set"

====
